---- MODULE Spec2Model ----
(***************************************************************************)
(* imgr-serve: the derivative cache (ProcessedImagesCache, its in-memory   *)
(* and persistent implementations), the persistent key-value store under   *)
(* it, and the Processor that drives both tiers.                           *)
(***************************************************************************)
EXTENDS Integers, Sequences, FiniteSets, TLC

(***************************************************************************)
(* Bounds of the model.                                                    *)
(***************************************************************************)
\* widths requested are absent or 1..MaxWidth
MaxWidth == 2
\* evictions the approximate LRU of quick_cache performs in one run
MaxEvictions == 1
\* MAX_OPTIONS_PER_IMAGE as configured for the run
max_options_per_image == 2

(***************************************************************************)
(* Option<T>: None is the empty sequence, Some(x) the one-element one.     *)
(***************************************************************************)
None == <<>>
Some(x) == <<x>>

\* ImageId = String: a sequence of characters
ImageIds == { <<"a">>, <<"a", "_", "{">> }

\* distinct byte contents of an image
Bytes == {1, 2}

OptWidths == {None} \cup { Some(w) : w \in 1..MaxWidth }

\* ProcessingParams, five optional fields in declaration order
ProcessingParams ==
    { [width |-> w, height |-> None, extension |-> None,
       quality |-> None, ratio_policy |-> None] : w \in OptWidths }

DefaultParams == [width |-> None, height |-> None, extension |-> None,
                  quality |-> None, ratio_policy |-> None]

\* the (id, params) pairs clients ask for: every variant of the first id,
\* the default variant of the other
Targets ==
    { t \in ImageIds \X ProcessingParams : t[1] = <<"a">> \/ t[2] = DefaultParams }

\* ImageContainer produced from original bytes b under params p
ImageContainer(b, p) == [data |-> b, params |-> p]

(***************************************************************************)
(* Ordering of ProcessingParams inside BTreeSet: derived Ord, fields in    *)
(* declaration order, None < Some(_).                                      *)
(***************************************************************************)
OptLess(a, b) ==
    \/ a = None /\ b # None
    \/ a # None /\ b # None /\ a[1] < b[1]

\* position of a variant in its enum: Extensions { Webp, Avif, PNG },
\* RatioPolicy { Resize, CropToCenter }
EnumRank(e) ==
    CASE e = "Webp" -> 0 [] e = "Avif" -> 1 [] e = "PNG" -> 2
      [] e = "Resize" -> 0 [] e = "CropToCenter" -> 1

\* derived Ord of an Option of such an enum
OptEnumLess(a, b) ==
    \/ a = None /\ b # None
    \/ a # None /\ b # None /\ EnumRank(a[1]) < EnumRank(b[1])

ParamsLess(p, q) ==
    \/ OptLess(p.width, q.width)
    \/ p.width = q.width /\ OptLess(p.height, q.height)
    \/ p.width = q.width /\ p.height = q.height
         /\ OptEnumLess(p.extension, q.extension)
    \/ p.width = q.width /\ p.height = q.height /\ p.extension = q.extension
         /\ OptLess(p.quality, q.quality)
    \/ p.width = q.width /\ p.height = q.height /\ p.extension = q.extension
         /\ p.quality = q.quality /\ OptEnumLess(p.ratio_policy, q.ratio_policy)

\* pop_first taken for pop_last: the least element
PopFirst(S) == CHOOSE m \in S : \A x \in S \ {m} : ParamsLess(m, x)

\* BTreeSet::pop_last on a non-empty set of params: its greatest element
PopLast(S) == CHOOSE m \in S : \A x \in S \ {m} : ParamsLess(x, m)

\* byte value of the characters image ids are made of
CharRank(c) == CASE c = "_" -> 95 [] c = "a" -> 97 [] c = "{" -> 123

\* String's Ord: bytewise lexicographic
StrLess(s, t) ==
    \E i \in 1..Len(t) :
        /\ \A j \in 1..(i - 1) : j <= Len(s) /\ s[j] = t[j]
        /\ (i > Len(s) \/ CharRank(s[i]) < CharRank(t[i]))

\* Ord of the tuple (ImageId, ProcessingParams) the persistent index stores
PairLess(a, b) ==
    IF a[1] = b[1] THEN ParamsLess(a[2], b[2]) ELSE StrLess(a[1], b[1])

PopLastPair(S) == CHOOSE m \in S : \A x \in S \ {m} : PairLess(x, m)

(***************************************************************************)
(* Keys of the persistent store.                                           *)
(***************************************************************************)
\* a u32 in decimal, as serde_json writes it
RECURSIVE NumStr(_)
NumStr(n) ==
    IF n < 10 THEN <<"0", "1", "2", "3", "4", "5", "6", "7", "8", "9">>[n + 1]
    ELSE NumStr(n \div 10) \o NumStr(n % 10)

OptStr(o) == IF o = None THEN "null" ELSE NumStr(o[1])

\* an Option of a unit-variant enum: null or the variant's name
OptEnumStr(o) == IF o = None THEN "null" ELSE o[1]

\* serde_json::to_string(&params): a JSON object, one member per field
ToJson(p) ==
    << "{", "width:", OptStr(p.width), ",", "height:", OptStr(p.height), ",",
       "extension:", OptEnumStr(p.extension), ",", "quality:", OptStr(p.quality), ",",
       "ratio_policy:", OptEnumStr(p.ratio_policy), "}" >>

\* format!("{}_{}", image_id, json)
cache_key(image_id, params) == image_id \o <<"_">> \o ToJson(params)

\* format!("{}_{{", image_id): the prefix remove() hands to remove_by_prefix
RemovePrefix(image_id) == image_id \o <<"_", "{">>

\* postcard::to_stdvec of a string: its length as a varint, then its bytes
to_stdvec(s) == <<Len(s)>> \o s

IsPrefix(pre, s) == Len(pre) <= Len(s) /\ SubSeq(s, 1, Len(pre)) = pre

(***************************************************************************)
(* Maps with a growing and shrinking key set.                              *)
(***************************************************************************)
Put(f, k, v) == [x \in DOMAIN f \cup {k} |-> IF x = k THEN v ELSE f[x]]
Del(f, k) == [x \in DOMAIN f \ {k} |-> f[x]]
RestrictTo(f, D) == [x \in D |-> f[x]]
EmptyMap == [x \in {} |-> None]

VARIABLES
    variant,                 \* PROCESSING_CACHE_IMPLEMENTATION
    policy,                  \* MAX_OPTIONS_PER_IMAGE_OVERFLOW_POLICY
    cache,                   \* MemoryProcessedImageCache.cache
    cache_entries,           \* MemoryProcessedImageCache.cache_entries
    cache_keyspace,          \* PersistentStore.cache_keyspace
    cache_entries_keyspace,  \* PersistentStore.cache_entries_keyspace
    evictions,               \* LRU evictions performed so far
    lastOp,                  \* the call that completed last, and its outcome
    storage,                 \* Processor.storage: the originals, by image id
    file_api,                \* Processor.file_api.is_some()
    api_key,                 \* Config.api_key (API_KEY)
    fetched,                 \* history: per id, the last fetch the file API answered
    cache_writer,            \* holder of the write guard of Processor.cache
    set_lock,                \* holder of the cache's set_lock mutex
    req,                     \* the Processor::get calls in flight
    call,                    \* the persistent cache's call in progress, engine op by engine op
    torn,                    \* history: the partial failures so far (a set cut short
                             \* after its payload write, a failed removal of an
                             \* evicted payload, a remove_by_prefix that left keys)
    main_pc,                 \* position of main: serving, inside shutdown_signal, draining
    stopped,                 \* the services whose stop() has returned, in order
    cancel,                  \* per service, its cancel_chan: value and version
    task,                    \* per service, the task serve_background spawned for it
    accepting,               \* the listener accepts connections
    inflight,                \* requests accepted and not yet answered
    writes,                  \* engine writes completed so far
    persisted,               \* engine writes made durable by the last persist
    writes_at_stop,          \* history: writes completed when the first stop() began
    resized,                 \* the last GET query validated, and what resize made of it
    config,                  \* the environment read and the Config built from it
    guards,                  \* per RwLock, the tasks holding its read guard and its writer
    ops                      \* per request, the point its get or prefetch has reached,
                             \* lock by lock

cacheVars == <<cache, cache_entries, cache_keyspace, cache_entries_keyspace>>
procVars == <<storage, file_api, api_key, fetched, cache_writer, set_lock, req>>
storeVars == <<call, torn>>
shutdownVars == <<main_pc, stopped, cancel, task, accepting, inflight, writes,
                  persisted, writes_at_stop>>
auxVars == <<resized, config, guards, ops>>
sysVars == <<storeVars, shutdownVars, auxVars>>
vars == <<variant, policy, cache, cache_entries, cache_keyspace,
          cache_entries_keyspace, evictions, lastOp, storage, file_api,
          api_key, fetched, cache_writer, set_lock, req, call, torn, main_pc,
          stopped, cancel, task, accepting, inflight, writes, persisted,
          writes_at_stop, resized, config, guards, ops>>

NoOp == [op |-> "init", id |-> None, p |-> None, v |-> None,
         res |-> "none", branch |-> "none", evicted |-> None, solo |-> FALSE]

(***************************************************************************)
(* PersistentStore: get / set / remove / remove_by_prefix on a keyspace.   *)
(***************************************************************************)
StoreGet(ks, key) == IF to_stdvec(key) \in DOMAIN ks THEN Some(ks[to_stdvec(key)]) ELSE None
\* the key written as it is, not serialized as get serializes it
StoreSetRawKey(ks, key, value) == Put(ks, key, value)
StoreSet(ks, key, value) == Put(ks, to_stdvec(key), value)
StoreRemove(ks, key) == Del(ks, to_stdvec(key))
\* keyspace.prefix(to_stdvec(prefix)): every stored key that starts with the
\* serialized prefix is removed
StoreRemoveByPrefix(ks, prefix) ==
    RestrictTo(ks, { k \in DOMAIN ks : ~IsPrefix(to_stdvec(prefix), k) })

(***************************************************************************)
(* Reads of the derivative cache.                                          *)
(***************************************************************************)
MemEntries(image_id) ==
    IF image_id \in DOMAIN cache_entries THEN cache_entries[image_id] ELSE {}

PersEntries(image_id) ==
    LET e == StoreGet(cache_entries_keyspace, image_id)
    IN  IF e = None THEN {} ELSE e[1]

\* the params the variant index of image_id holds
VariantIndex(image_id) ==
    IF variant = "InMemory" THEN MemEntries(image_id)
    ELSE { e[2] : e \in PersEntries(image_id) }

\* ProcessedImagesCache::get
CacheGet(image_id, params) ==
    IF variant = "InMemory"
    THEN IF <<image_id, params>> \in DOMAIN cache
         THEN Some(cache[<<image_id, params>>]) ELSE None
    ELSE StoreGet(cache_keyspace, cache_key(image_id, params))

records_count(image_id) ==
    IF variant = "InMemory" THEN Cardinality(MemEntries(image_id))
    ELSE Cardinality(PersEntries(image_id))

\* the existence check made on the variant index, not on the payloads
have_record_in_index(image_id, params) == params \in VariantIndex(image_id)

have_record(image_id, params) ==
    IF variant = "InMemory" THEN <<image_id, params>> \in DOMAIN cache
    ELSE StoreGet(cache_keyspace, cache_key(image_id, params)) # None

\* the params that have a payload stored under image_id
PayloadParams(image_id) == { p \in ProcessingParams : CacheGet(image_id, p) # None }

(***************************************************************************)
(* ProcessedImagesCache::_insert, as the state it leaves.                  *)
(***************************************************************************)
\* MemoryProcessedImageCache::_insert
MemInsert(image_id, params, image, pop_last) ==
    LET entries == MemEntries(image_id)
        pops == pop_last /\ Cardinality(entries) > 0
        last_param == PopLast(entries)
        entries1 == IF pops THEN entries \ {last_param} ELSE entries
        cache1 == IF pops THEN Del(cache, <<image_id, last_param>>) ELSE cache
    IN  [cache |-> Put(cache1, <<image_id, params>>, image),
         cache_entries |-> Put(cache_entries, image_id, entries1 \cup {params}),
         evicted |-> IF pops THEN Some(last_param) ELSE None]

\* PersistentProcessedImageCache::_insert
PersInsert(image_id, params, image, pop_last) ==
    LET key == cache_key(image_id, params)
        entries == PersEntries(image_id)
        pops == pop_last /\ Cardinality(entries) > 0
        last == PopLastPair(entries)
        entries1 == IF pops THEN entries \ {last} ELSE entries
        ks1 == IF pops THEN StoreRemove(cache_keyspace, cache_key(last[1], last[2]))
               ELSE cache_keyspace
    IN  [cache_keyspace |-> StoreSet(ks1, key, image),
         cache_entries_keyspace |->
             StoreSet(cache_entries_keyspace, image_id,
                      entries1 \cup {<<image_id, params>>}),
         evicted |-> IF pops THEN Some(last[2]) ELSE None]

\* the param _insert pops, if any
InsertEvicts(image_id, params, image, pop_last) ==
    IF variant = "InMemory" THEN MemInsert(image_id, params, image, pop_last).evicted
    ELSE PersInsert(image_id, params, image, pop_last).evicted

_insert(image_id, params, image, pop_last) ==
    IF variant = "InMemory"
    THEN /\ cache' = MemInsert(image_id, params, image, pop_last).cache
         /\ cache_entries' = MemInsert(image_id, params, image, pop_last).cache_entries
         /\ UNCHANGED <<cache_keyspace, cache_entries_keyspace>>
    ELSE /\ cache_keyspace' = PersInsert(image_id, params, image, pop_last).cache_keyspace
         /\ cache_entries_keyspace' =
                PersInsert(image_id, params, image, pop_last).cache_entries_keyspace
         /\ UNCHANGED <<cache, cache_entries>>

(***************************************************************************)
(* ProcessedImagesCache::set (the trait's default method).                 *)
(***************************************************************************)
\* the limit compared with > where the code has >=
OverLimitOffByOne(count) == count > max_options_per_image

\* records_count >= self.max_options_per_image().get()
OverLimit(count) == count >= max_options_per_image

\* the arms of the overflow policy swapped
SetArmSwapped(exists, count) ==
    IF exists THEN "exists"
    ELSE IF OverLimit(count)
         THEN IF policy = "Restrict" THEN "rewrite" ELSE "restrict"
         ELSE "insert"

\* the arm of set()'s match for the (exists, records_count) it has read
SetArm(exists, count) ==
    IF exists THEN "exists"
    ELSE IF OverLimit(count)
         THEN IF policy = "Restrict" THEN "restrict" ELSE "rewrite"
         ELSE "insert"

\* which arm of set() a call takes when it reads and acts in one step
SetBranch(image_id, params) ==
    SetArm(have_record(image_id, params), records_count(image_id))

SetResult(branch) == IF branch = "restrict" THEN "LimitExceeded" ELSE "Ok"

\* a set that writes the payload again when its key is already there
CacheSetArmOverwrites(branch, image_id, params, image) ==
    CASE branch = "exists" -> _insert(image_id, params, image, FALSE)
      [] branch = "restrict" -> UNCHANGED cacheVars
      [] branch = "rewrite" -> _insert(image_id, params, image, TRUE)
      [] branch = "insert" -> _insert(image_id, params, image, FALSE)

\* the effect of an arm of set() on the cache
CacheSetArm(branch, image_id, params, image) ==
    CASE branch = "exists" -> UNCHANGED cacheVars
      [] branch = "restrict" -> UNCHANGED cacheVars
      [] branch = "rewrite" -> _insert(image_id, params, image, TRUE)
      [] branch = "insert" -> _insert(image_id, params, image, FALSE)

\* the effect of set() on the cache
CacheSet(image_id, params, image) ==
    CacheSetArm(SetBranch(image_id, params), image_id, params, image)

\* remove that drops the payloads of image_id and keeps its index entry
CacheRemoveKeepsIndex(image_id) ==
    IF variant = "InMemory"
    THEN /\ cache' = RestrictTo(cache, { k \in DOMAIN cache : k[1] # image_id })
         /\ UNCHANGED <<cache_entries, cache_keyspace, cache_entries_keyspace>>
    ELSE /\ cache_keyspace' =
                StoreRemoveByPrefix(cache_keyspace, RemovePrefix(image_id))
         /\ UNCHANGED <<cache, cache_entries, cache_entries_keyspace>>

\* remove that matches every key whose id starts with image_id
CacheRemoveByIdPrefix(image_id) ==
    IF variant = "InMemory"
    THEN /\ cache' = RestrictTo(cache, { k \in DOMAIN cache :
                                            ~IsPrefix(image_id, k[1]) })
         /\ cache_entries' = RestrictTo(cache_entries,
                { i \in DOMAIN cache_entries : ~IsPrefix(image_id, i) })
         /\ UNCHANGED <<cache_keyspace, cache_entries_keyspace>>
    ELSE /\ cache_keyspace' =
                StoreRemoveByPrefix(cache_keyspace, RemovePrefix(image_id))
         /\ UNCHANGED <<cache, cache_entries, cache_entries_keyspace>>

(***************************************************************************)
(* ProcessedImagesCache::remove.                                           *)
(***************************************************************************)
CacheRemove(image_id) ==
    IF variant = "InMemory"
    THEN /\ cache' = RestrictTo(cache, { k \in DOMAIN cache : k[1] # image_id })
         /\ cache_entries' = Del(cache_entries, image_id)
         /\ UNCHANGED <<cache_keyspace, cache_entries_keyspace>>
    ELSE /\ cache_keyspace' =
                StoreRemoveByPrefix(cache_keyspace, RemovePrefix(image_id))
         /\ UNCHANGED <<cache, cache_entries, cache_entries_keyspace>>

(***************************************************************************)
(* The derivative cache driven call by call.                               *)
(***************************************************************************)
\* the request slots of the server's worker pool
Requests == {"r1", "r2"}

IdleReq == [pc |-> "idle", id |-> None, p |-> None, img |-> None,
            count |-> 0, exists |-> FALSE, solo |-> FALSE]

\* the derivative cache empty, no request in flight
\* Processor::get_background_services: the original store, the derivative
\* cache and the adapter that flushes the shared PersistentStore
background_services == <<"storage", "cache", "persistent_store">>

Services == { background_services[i] : i \in 1..Len(background_services) }

\* no call of the persistent cache in progress
IdleCall == [op |-> "none", pc |-> "idle", id |-> None, p |-> None,
             img |-> None, count |-> 0, entries |-> {}, pops |-> FALSE,
             log |-> <<>>]

\* no query validated, no Config built, no lock in use
AuxInit ==
    /\ resized = None
    /\ config = None
    /\ guards = EmptyMap
    /\ ops = EmptyMap

\* the server as main leaves it before the first request, with no background
\* service registered (the scheduler is studied under SpecShutdown)
SysInit ==
    /\ call = IdleCall
    /\ torn = {}
    /\ main_pc = "serving"
    /\ stopped = <<>>
    /\ cancel = EmptyMap
    /\ task = EmptyMap
    /\ accepting = TRUE
    /\ inflight = 0
    /\ writes = 0
    /\ persisted = 0
    /\ writes_at_stop = 0
    /\ AuxInit

CacheInit ==
    /\ SysInit
    /\ variant \in {"InMemory", "Persistent"}
    /\ policy \in {"Restrict", "Rewrite"}
    /\ cache = EmptyMap
    /\ cache_entries = EmptyMap
    /\ cache_keyspace = EmptyMap
    /\ cache_entries_keyspace = EmptyMap
    /\ evictions = 0
    /\ lastOp = NoOp
    /\ fetched = EmptyMap
    /\ cache_writer = None
    /\ set_lock = None
    /\ req = [r \in Requests |-> IdleReq]

Init == CacheInit /\ storage = EmptyMap /\ file_api = FALSE /\ api_key = ""

Set(image_id, params, image) ==
    /\ CacheSet(image_id, params, image)
    /\ lastOp' = [NoOp EXCEPT !.op = "set", !.id = Some(image_id),
                    !.p = Some(params), !.v = Some(image),
                    !.branch = SetBranch(image_id, params),
                    !.res = SetResult(SetBranch(image_id, params)),
                    !.evicted = IF SetBranch(image_id, params) = "rewrite"
                                THEN InsertEvicts(image_id, params, image, TRUE)
                                ELSE None]
    /\ UNCHANGED <<sysVars, variant, policy, evictions, procVars>>

Remove(image_id) ==
    /\ CacheRemove(image_id)
    /\ lastOp' = [NoOp EXCEPT !.op = "remove", !.id = Some(image_id), !.res = "Ok"]
    /\ UNCHANGED <<sysVars, variant, policy, evictions, procVars>>

Get(image_id, params) ==
    /\ lastOp' = [NoOp EXCEPT !.op = "get", !.id = Some(image_id),
                    !.p = Some(params), !.res = "Ok"]
    /\ UNCHANGED <<sysVars, variant, policy, evictions, cacheVars, procVars>>

\* quick_cache drops a payload entry (approximate LRU, per shard, driven by
\* the traffic of all ids)
LruEvictPayload(image_id, params) ==
    /\ variant = "InMemory"
    /\ evictions < MaxEvictions
    /\ <<image_id, params>> \in DOMAIN cache
    /\ cache' = Del(cache, <<image_id, params>>)
    /\ evictions' = evictions + 1
    /\ lastOp' = [NoOp EXCEPT !.op = "lru_payload", !.id = Some(image_id),
                    !.p = Some(params), !.res = "Ok"]
    /\ UNCHANGED <<sysVars, variant, policy, cache_entries, cache_keyspace,
                   cache_entries_keyspace, procVars>>

\* quick_cache drops a variant-index entry
LruEvictEntries(image_id) ==
    /\ variant = "InMemory"
    /\ evictions < MaxEvictions
    /\ image_id \in DOMAIN cache_entries
    /\ cache_entries' = Del(cache_entries, image_id)
    /\ evictions' = evictions + 1
    /\ lastOp' = [NoOp EXCEPT !.op = "lru_entries", !.id = Some(image_id),
                    !.res = "Ok"]
    /\ UNCHANGED <<sysVars, variant, policy, cache, cache_keyspace,
                   cache_entries_keyspace, procVars>>

Next ==
    \/ \E t \in Targets, b \in Bytes : Set(t[1], t[2], ImageContainer(b, t[2]))
    \/ \E i \in ImageIds : Remove(i)
    \/ \E t \in Targets : Get(t[1], t[2])
    \/ \E t \in Targets : LruEvictPayload(t[1], t[2])
    \/ \E i \in ImageIds : LruEvictEntries(i)

Spec == Init /\ [][Next]_vars

(***************************************************************************)
(* Processor: get, _process_image and prefetch, as the steps between their *)
(* awaits.  Requests run concurrently; each is at one position (pc).       *)
(***************************************************************************)
\* the image id the Processor is driven with; LRU pressure on the derivative
\* cache is studied call by call under Spec, the interleavings of requests here
ProcIds == { <<"a">> }
ProcTargets == { t \in Targets : t[1] \in ProcIds }

\* bodies a client may preload: 0 is a body of no supported image format
PrefetchData == {0} \cup Bytes
\* bodies the base file API may answer with
ApiData == {0, 1}
\* what fetch_img_from_base_api returns: the body of a 200, or an error that
\* carries the status of a non-200 answer and no status for a transport failure
ApiResponses ==
    { [ok |-> FALSE, http_error_code |-> c, data |-> 0] :
          c \in {None, Some(404), Some(500)} }
        \cup { [ok |-> TRUE, http_error_code |-> None, data |-> b] : b \in ApiData }

\* every byte string passes for an image
any_image_format(data) == Some("format")

\* Processor::get_image_format: the bytes 0 are of no image format
get_image_format(data) == IF data = 0 THEN None ELSE Some("format")

\* the derivative _process_image computes from an original and the params
Derive(original_image, params) == ImageContainer(original_image, params)

\* Storage::get
StorageGet(image_id) ==
    IF image_id \in DOMAIN storage THEN Some(storage[image_id]) ELSE None

\* a lock that grants itself whoever holds it
LockAlwaysFree(holder) == TRUE

\* lock().await / write().await return once nobody holds the lock
LockFree(holder) == holder = None

AllOthersIdle(r) == \A o \in Requests \ {r} : req[o].pc = "idle"

\* the requests in flight no longer run alone
Unsolo(rq) == [o \in Requests |-> [rq[o] EXCEPT !.solo = FALSE]]

Done(op, image_id, params, v, res, branch, solo) ==
    [NoOp EXCEPT !.op = op, !.id = Some(image_id), !.p = params, !.v = v,
                 !.res = res, !.branch = branch, !.solo = solo]

Stepped == [NoOp EXCEPT !.op = "step"]

\* get, up to the cache check: a hit returns the cached derivative
GetCacheCheck(r, image_id, params) ==
    /\ req[r].pc = "idle"
    /\ LockFree(cache_writer)
    /\ IF CacheGet(image_id, params) # None
       THEN /\ lastOp' = Done("get", image_id, Some(params),
                              CacheGet(image_id, params), "Ok", "hit",
                              AllOthersIdle(r))
            /\ UNCHANGED req
       ELSE /\ req' = [Unsolo(req) EXCEPT ![r] =
                        [IdleReq EXCEPT !.pc = "storage", !.id = Some(image_id),
                                        !.p = Some(params),
                                        !.solo = AllOthersIdle(r)]]
            /\ lastOp' = Stepped
    /\ UNCHANGED <<sysVars, variant, policy, evictions, cacheVars, storage, file_api,
                   api_key, fetched, cache_writer, set_lock>>

\* the storage check treats every stored original as usable, sniffable or not
StorageOutcomeNoSniff(orig_image, upstream) ==
    IF orig_image # None THEN "process"
    ELSE IF upstream THEN "fetch" ELSE "NotFound"

\* the storage check goes upstream whether a file API is configured or not
StorageOutcomeAlwaysFetch(orig_image, upstream) ==
    IF orig_image # None /\ get_image_format(orig_image[1]) # None THEN "process"
    ELSE "fetch"

\* get, after the cache miss: a stored original of a supported format is
\* processed; a missing or unsniffable one sends get upstream, or to NotFound
\* when no file API is configured
StorageOutcome(orig_image, upstream) ==
    IF orig_image # None /\ get_image_format(orig_image[1]) # None THEN "process"
    ELSE IF upstream THEN "fetch" ELSE "NotFound"

\* _process_image without its format check
ProcessedUnchecked(original_image, params) ==
    Some(Derive(original_image, params))

\* _process_image up to the cache write: None stands for UnsupportingExtension
Processed(original_image, params) ==
    IF get_image_format(original_image) = None THEN None
    ELSE Some(Derive(original_image, params))

\* every failure of the file API answered as NotFound
fetch_error_always_not_found(http_error_code) == "NotFound"

\* err.http_error_code.unwrap_or(0) == 404
fetch_error_type(http_error_code) ==
    IF http_error_code = Some(404) THEN "NotFound" ELSE "FileApiError"

\* get, the storage check
GetStorageCheck(r) ==
    /\ req[r].pc = "storage"
    /\ LET image_id == req[r].id[1]
           orig_image == StorageGet(image_id)
           outcome == StorageOutcome(orig_image, file_api)
       IN  CASE outcome = "process" ->
                  IF Processed(orig_image[1], req[r].p[1]) = None
                  THEN /\ req' = [req EXCEPT ![r] = IdleReq]
                       /\ lastOp' = Done("get", image_id, req[r].p, None,
                                         "UnsupportingExtension", "none",
                                         req[r].solo)
                  ELSE /\ req' = [req EXCEPT ![r].pc = "wlock",
                                    ![r].img = Processed(orig_image[1], req[r].p[1])]
                       /\ lastOp' = Stepped
             [] outcome = "fetch" ->
                  /\ req' = [req EXCEPT ![r].pc = "fetch"]
                  /\ lastOp' = Stepped
             [] outcome = "NotFound" ->
                  /\ req' = [req EXCEPT ![r] = IdleReq]
                  /\ lastOp' = Done("get", image_id, req[r].p, None,
                                    "NotFound", "none", req[r].solo)
    /\ UNCHANGED <<sysVars, variant, policy, evictions, cacheVars, storage, file_api,
                   api_key, fetched, cache_writer, set_lock>>

\* the fetched original is dropped instead of being stored
StoreFetchedNowhere(image_id, orig_image) == storage

\* get, Ok(orig_image): storage.write().await.set(image_id, &orig_image)
StoreFetched(image_id, orig_image) == Put(storage, image_id, orig_image)

\* get, the answer of the base file API: an image is stored, then processed
GetFetch(r, response) ==
    /\ req[r].pc = "fetch"
    /\ LET image_id == req[r].id[1]
       IN  IF ~response.ok
           THEN /\ req' = [req EXCEPT ![r] = IdleReq]
                /\ lastOp' = Done("get", image_id, req[r].p, None,
                                  fetch_error_type(response.http_error_code),
                                  "none", req[r].solo)
                /\ UNCHANGED storage
           ELSE /\ storage' = StoreFetched(image_id, response.data)
                /\ IF Processed(response.data, req[r].p[1]) = None
                   THEN /\ req' = [Unsolo(req) EXCEPT ![r] = IdleReq]
                        /\ lastOp' = Done("get", image_id, req[r].p, None,
                                          "UnsupportingExtension", "none",
                                          req[r].solo)
                   ELSE /\ req' = [Unsolo(req) EXCEPT ![r] =
                                    [req[r] EXCEPT !.pc = "wlock",
                                       !.img = Processed(response.data, req[r].p[1])]]
                        /\ lastOp' = Stepped
    /\ UNCHANGED <<sysVars, variant, policy, evictions, cacheVars, file_api, api_key,
                   cache_writer, set_lock>>

\* _process_image: cache.write().await
AcquireCacheWrite(r) ==
    /\ req[r].pc = "wlock"
    /\ LockFree(cache_writer)
    /\ cache_writer' = Some(r)
    /\ req' = [req EXCEPT ![r].pc = "mlock"]
    /\ lastOp' = Stepped
    /\ UNCHANGED <<sysVars, variant, policy, evictions, cacheVars, storage, file_api,
                   api_key, fetched, set_lock>>

\* set: lock.lock().await
AcquireSetLock(r) ==
    /\ req[r].pc = "mlock"
    /\ LockFree(set_lock)
    /\ set_lock' = Some(r)
    /\ req' = [req EXCEPT ![r].pc = "check"]
    /\ lastOp' = Stepped
    /\ UNCHANGED <<sysVars, variant, policy, evictions, cacheVars, storage, file_api,
                   api_key, fetched, cache_writer>>

\* set: records_count and have_record are read
SetCheck(r) ==
    /\ req[r].pc = "check"
    /\ req' = [req EXCEPT ![r].pc = "insert",
                          ![r].count = records_count(req[r].id[1]),
                          ![r].exists = have_record(req[r].id[1], req[r].p[1])]
    /\ lastOp' = Stepped
    /\ UNCHANGED <<sysVars, variant, policy, evictions, cacheVars, storage, file_api,
                   api_key, fetched, cache_writer, set_lock>>

\* set: the arm chosen from what was read acts; both guards are dropped and
\* get returns the derivative whatever set returned
SetInsert(r) ==
    /\ req[r].pc = "insert"
    /\ LET image_id == req[r].id[1]
           branch == SetArm(req[r].exists, req[r].count)
       IN  /\ CacheSetArm(branch, image_id, req[r].p[1], req[r].img[1])
           /\ lastOp' = Done("get", image_id, req[r].p, req[r].img, "Ok",
                             branch, req[r].solo)
    /\ set_lock' = None
    /\ cache_writer' = None
    /\ req' = [req EXCEPT ![r] = IdleReq]
    /\ UNCHANGED <<sysVars, variant, policy, evictions, storage, file_api, api_key,
                   fetched>>

\* prefetch that stores the body without sniffing it
PrefetchUnsniffed(image_id, data) ==
    /\ storage' = Put(storage, image_id, data)
    /\ req' = Unsolo(req)
    /\ lastOp' = Done("prefetch", image_id, None, Some(data), "Ok", "none", FALSE)
    /\ UNCHANGED <<sysVars, variant, policy, evictions, cacheVars, file_api, api_key,
                   fetched, cache_writer, set_lock>>

\* prefetch: the body is sniffed and stored as the original
Prefetch(image_id, data) ==
    /\ IF get_image_format(data) = None
       THEN /\ lastOp' = Done("prefetch", image_id, None, Some(data),
                              "UnsupportingExtension", "none", FALSE)
            /\ UNCHANGED <<storage, req>>
       ELSE /\ storage' = Put(storage, image_id, data)
            /\ req' = Unsolo(req)
            /\ lastOp' = Done("prefetch", image_id, None, Some(data), "Ok",
                              "none", FALSE)
    /\ UNCHANGED <<sysVars, variant, policy, evictions, cacheVars, file_api, api_key,
                   fetched, cache_writer, set_lock>>

ProcInit ==
    CacheInit /\ storage = EmptyMap /\ file_api \in BOOLEAN /\ api_key = ""

ProcNext ==
    \/ \E r \in Requests, t \in ProcTargets : GetCacheCheck(r, t[1], t[2])
    \/ \E r \in Requests : GetStorageCheck(r)
    \/ \E r \in Requests, resp \in ApiResponses : GetFetch(r, resp) /\ UNCHANGED fetched
    \/ \E r \in Requests : AcquireCacheWrite(r)
    \/ \E r \in Requests : AcquireSetLock(r)
    \/ \E r \in Requests : SetCheck(r)
    \/ \E r \in Requests : SetInsert(r)
    \/ \E i \in ProcIds, d \in PrefetchData : Prefetch(i, d)

SpecProc == ProcInit /\ [][ProcNext]_vars

(***************************************************************************)
(* The routes: serve_file (GET /images/{id}) and preload_image (PUT), one  *)
(* request at a time.                                                      *)
(***************************************************************************)
\* MAX_IMAGE_RESIZE
max_image_resize == [width |-> MaxWidth, height |-> MaxWidth]

\* the query of a GET: the params the Processor is driven with, and params
\* the validation has to refuse
RequestParams ==
    ProcessingParams
        \cup { [DefaultParams EXCEPT !.quality = Some(q)] : q \in {9, 101} }
        \cup { [DefaultParams EXCEPT !.width = Some(MaxWidth + 1)],
               [DefaultParams EXCEPT !.height = Some(MaxWidth + 1)] }

\* the X-API-Key header of a PUT: missing, the key "secret", another key
ApiHeaders == {None, Some("secret"), Some("wrong")}
ApiKeys == {"", "secret"}

\* validate_processing_params(...).is_ok()
validate_processing_params(params) ==
    params.quality = None \/ ~(params.quality[1] < 10 \/ params.quality[1] > 100)

\* the height of the request left unchecked
is_allowed_size_width_only(size, width, height) ==
    ~(width # None /\ width[1] > size.width)

\* Size::is_allowed_size
is_allowed_size(size, width, height) ==
    /\ ~(width # None /\ width[1] > size.width)
    /\ ~(height # None /\ height[1] > size.height)

\* the status serve_file answers with
GetStatus(res) ==
    CASE res = "Ok" -> 200
      [] res = "NotFound" -> 404
      [] OTHER -> 400

\* the error_type serve_file answers with
GetErrorType(res) ==
    CASE res = "InvalidSize" -> "invalid_size"
      [] res = "UnsupportingExtension" -> "unsupporting_extension"
      [] res = "NotFound" -> "not_found"
      [] res = "FileApiError" -> "file_api_error"
      [] res = "ProcessedImagesLimit" -> "processed_images_limit"
      [] OTHER -> "none"

\* the status preload_image answers with
PreloadStatus(res) ==
    CASE res = "Ok" -> 200
      [] res = "Unauthorized" -> 401
      [] OTHER -> 400

\* serve_file: the query is validated, then Processor::get is called
ServeFile(r, image_id, params) ==
    /\ req[r].pc = "idle"
    /\ IF \/ ~validate_processing_params(params)
          \/ ~is_allowed_size(max_image_resize, params.width, params.height)
       THEN /\ lastOp' = Done("get", image_id, None, None, "InvalidSize",
                              "none", FALSE)
            /\ UNCHANGED <<sysVars, variant, policy, evictions, cacheVars, procVars>>
       ELSE GetCacheCheck(r, image_id, params)

\* the status preload_image answers with a detail
PreloadDetail(res) ==
    IF res = "Unauthorized" THEN "Mismatched api key" ELSE "none"

\* preload_image: the key the request carries, empty when the header is missing
sent_api_key(header) == IF header = None THEN "" ELSE header[1]

\* every key is taken for the server's
key_never_mismatched(sent, server_api_key) == FALSE

\* preload_image: api_key != server_api_key
key_mismatched(sent, server_api_key) == sent # server_api_key

\* preload_image: the key is compared, then Processor::prefetch is called
PreloadImage(image_id, header, data) ==
    IF key_mismatched(sent_api_key(header), api_key)
    THEN /\ lastOp' = Done("preload", image_id, None, None, "Unauthorized",
                           "none", FALSE)
         /\ UNCHANGED <<sysVars, variant, policy, evictions, cacheVars, procVars>>
    ELSE Prefetch(image_id, data)

\* the requests the routes are driven with
ApiRequests == {"r1"}

\* what a persistent original store may hold when the server starts
StoredAtStart == {EmptyMap} \cup { [i \in ProcIds |-> 0] }

ApiInit ==
    /\ CacheInit
    /\ storage \in StoredAtStart
    /\ file_api \in BOOLEAN
    /\ api_key \in ApiKeys

\* preload_image reads the body (to_bytes) after the key check: the body of a
\* rejected request plays no part, one body stands for all of them
PreloadBodies(header) ==
    IF key_mismatched(sent_api_key(header), api_key) THEN {0} ELSE PrefetchData

\* the requests a client can send and the steps of the get in flight; the
\* evictions of quick_cache are interleaved with the cache calls in Spec
ApiNext ==
    \/ \E r \in ApiRequests, i \in ProcIds, p \in RequestParams : ServeFile(r, i, p)
    \/ \E i \in ProcIds, h \in ApiHeaders :
          \E d \in PreloadBodies(h) : PreloadImage(i, h, d)
    \/ \E r \in ApiRequests : GetStorageCheck(r)
    \/ \E r \in ApiRequests, resp \in ApiResponses :
          /\ GetFetch(r, resp)
          /\ fetched' = IF resp.ok
                         THEN Put(fetched, req[r].id[1],
                                  [p |-> req[r].p[1], data |-> resp.data])
                         ELSE fetched
    \/ \E r \in ApiRequests : AcquireCacheWrite(r)
    \/ \E r \in ApiRequests : AcquireSetLock(r)
    \/ \E r \in ApiRequests : SetCheck(r)
    \/ \E r \in ApiRequests : SetInsert(r)

SpecApi == ApiInit /\ [][ApiNext]_vars

(***************************************************************************)
(* Properties of the derivative cache.                                     *)
(***************************************************************************)
\* the image id and params of the call recorded in lastOp
OpId(op) == op.id[1]
OpParams(op) == op.p[1]

\* C1: immediately after a set that returns Ok, the variant index of its
\* image id holds at most max_options_per_image params (either policy,
\* either implementation).
C1_IndexWithinLimit ==
    (lastOp.op = "set" /\ lastOp.res = "Ok")
        => Cardinality(VariantIndex(OpId(lastOp))) <= max_options_per_image

\* a set under Rewrite that evicted and left the index exactly full
C1_Witness ==
    /\ lastOp.op = "set" /\ lastOp.res = "Ok" /\ lastOp.branch = "rewrite"
    /\ lastOp.evicted # None
    /\ Cardinality(VariantIndex(OpId(lastOp))) = max_options_per_image

\* g is the greatest param of S in the order of ProcessingParams
IsGreatest(g, S) == g \in S /\ \A x \in S \ {g} : ParamsLess(x, g)

\* the step is the call set(image_id, params, _)
IsSet(image_id, params) ==
    lastOp'.op = "set" /\ lastOp'.id = Some(image_id) /\ lastOp'.p = Some(params)

\* C2: under Restrict, a set of a key with no stored payload, made when the
\* variant index of the id already holds max_options_per_image params or
\* more, returns LimitExceeded and leaves payloads and indexes unchanged.
C2_RestrictRejects ==
    [][ \A i \in ImageIds, p \in ProcessingParams :
          (/\ IsSet(i, p)
           /\ policy = "Restrict"
           /\ CacheGet(i, p) = None
           /\ Cardinality(VariantIndex(i)) >= max_options_per_image)
          => (lastOp'.res = "LimitExceeded" /\ UNCHANGED cacheVars) ]_vars

\* a rejected set
C2_Witness ==
    /\ lastOp.op = "set" /\ lastOp.res = "LimitExceeded"
    /\ policy = "Restrict"
    /\ CacheGet(OpId(lastOp), OpParams(lastOp)) = None
    /\ Cardinality(VariantIndex(OpId(lastOp))) = max_options_per_image

C4_SetExistingIsNoop ==
    [][ \A i \in ImageIds, p \in ProcessingParams :
          (IsSet(i, p) /\ CacheGet(i, p) # None)
          => (lastOp'.res = "Ok" /\ UNCHANGED cacheVars) ]_vars

\* a set of a stored key with another value, the index being full
C4_Witness ==
    /\ lastOp.op = "set" /\ lastOp.branch = "exists" /\ lastOp.res = "Ok"
    /\ CacheGet(OpId(lastOp), OpParams(lastOp)) # None
    /\ CacheGet(OpId(lastOp), OpParams(lastOp)) # lastOp.v
    /\ Cardinality(VariantIndex(OpId(lastOp))) = max_options_per_image

\* the step removes or evicts the payload of (id, params)
Drops(image_id, params) ==
    \/ lastOp'.op = "remove" /\ lastOp'.id = Some(image_id)
    \/ lastOp'.op = "lru_payload" /\ lastOp'.id = Some(image_id)
         /\ lastOp'.p = Some(params)
    \/ lastOp'.op = "set" /\ lastOp'.id = Some(image_id)
         /\ lastOp'.evicted = Some(params)

\* C5: a set that returns Ok for a key with no stored payload makes get
\* return its value, and every later step other than remove(id), the
\* admission eviction of p or the LRU eviction of p keeps get(id, p).
C5_GetReturnsSetValue ==
    [][ \A i \in ImageIds, p \in ProcessingParams :
          /\ (IsSet(i, p) /\ lastOp'.res = "Ok" /\ CacheGet(i, p) = None)
                => CacheGet(i, p)' = lastOp'.v
          /\ (CacheGet(i, p) # None /\ ~Drops(i, p))
                => CacheGet(i, p)' = CacheGet(i, p) ]_vars

\* a get that hits while the id holds another variant as well
C5_Witness ==
    /\ lastOp.op = "get"
    /\ CacheGet(OpId(lastOp), OpParams(lastOp)) # None
    /\ Cardinality(PayloadParams(OpId(lastOp))) = max_options_per_image

\* C6, as claimed: after remove(id) no payload of id is stored and the
\* variant index of id is gone.
C6_RemoveLeavesNothing ==
    lastOp.op = "remove"
        => /\ PayloadParams(OpId(lastOp)) = {}
           /\ records_count(OpId(lastOp)) = 0

\* C10, as claimed: no image id ever has more than max_options_per_image
\* payloads stored.
C10_PayloadsWithinLimit ==
    \A i \in ImageIds : Cardinality(PayloadParams(i)) <= max_options_per_image

(***************************************************************************)
(* Properties of the Processor.                                            *)
(***************************************************************************)
\* C7: after a successful prefetch(id, bytes) every derivative variant of id
\* has been invalidated: no payload of id is stored and VariantIndex(id) is
\* empty.
C7_PrefetchInvalidates ==
    (lastOp.op = "prefetch" /\ lastOp.res = "Ok")
        => /\ VariantIndex(OpId(lastOp)) = {}
           /\ PayloadParams(OpId(lastOp)) = {}

\* C8: a get(id, p) that ran with no other request in flight and no prefetch
\* during it (so it started after any prefetch and any racing get completed)
\* returns the derivative of the original that is stored now.
C8_LaterGetsFresh ==
    (lastOp.op = "get" /\ lastOp.res = "Ok" /\ lastOp.solo)
        => /\ StorageGet(OpId(lastOp)) # None
           /\ lastOp.v = Some(Derive(StorageGet(OpId(lastOp))[1], OpParams(lastOp)))

\* the request is inside set(), between taking set_lock and returning
InSetCall(r) == req[r].pc \in {"check", "insert"}

\* C9: the admission check and the insert of one set are atomic with respect
\* to every other set: at most one request is inside set() at a time, what a
\* set read (variant count, key existence) still holds when it inserts, and
\* so concurrent sets never take the variant index of an id past the limit.
C9_AdmissionAtomic ==
    /\ \A r1, r2 \in Requests : (InSetCall(r1) /\ InSetCall(r2)) => r1 = r2
    /\ \A r \in Requests :
          req[r].pc = "insert"
              => /\ req[r].count = records_count(req[r].id[1])
                 /\ req[r].exists = have_record(req[r].id[1], req[r].p[1])
    /\ \A i \in ProcIds : Cardinality(VariantIndex(i)) <= max_options_per_image

\* one set has checked a new params for an id holding N-1 variants and is
\* about to insert, while another request waits to set a distinct new params
\* of the same id
C9_Witness ==
    \E r1, r2 \in Requests :
        /\ r1 # r2
        /\ req[r1].pc = "insert" /\ req[r2].pc = "wlock"
        /\ req[r1].id = req[r2].id /\ req[r1].p # req[r2].p
        /\ ~req[r1].exists
        /\ req[r1].count = max_options_per_image - 1
        /\ ~have_record(req[r2].id[1], req[r2].p[1])
        /\ req[r2].p[1] \notin VariantIndex(req[r2].id[1])

(***************************************************************************)
(* Properties of the routes.                                               *)
(***************************************************************************)
\* C11: under Restrict, a get whose new params find the variant index of the
\* id full fails with ProcessedImagesLimit (HTTP 400, error_type
\* processed_images_limit), while a get of an admitted params, a cache hit,
\* succeeds.
C11_LimitSurfaces ==
    /\ (lastOp.op = "get" /\ lastOp.branch = "restrict")
          => /\ lastOp.res = "ProcessedImagesLimit"
             /\ GetStatus(lastOp.res) = 400
             /\ GetErrorType(lastOp.res) = "processed_images_limit"
    /\ (lastOp.op = "get" /\ lastOp.branch = "hit") => lastOp.res = "Ok"

\* C12: after a successful get(id, p) the derivative it returned is the one
\* the derivative cache holds for (id, p), so that a later get(id, p) is a hit
\* returning the same image; and a hit reads, fetches and writes nothing.
C12_SuccessfulGetIsCached ==
    [][ \A i \in ProcIds, p \in ProcessingParams :
          /\ (lastOp'.op = "get" /\ lastOp'.res = "Ok" /\ lastOp'.id = Some(i)
                /\ lastOp'.p = Some(p))
                => CacheGet(i, p)' = lastOp'.v
          /\ (\E r \in ApiRequests : ServeFile(r, i, p) /\ CacheGet(i, p) # None)
                => /\ lastOp'.v = CacheGet(i, p) /\ lastOp'.res = "Ok"
                   /\ UNCHANGED <<cacheVars, storage, req, fetched>> ]_vars

\* C13: a get that missed the derivative cache and finds no original for the
\* id, with no file API configured, returns NotFound (HTTP 404, error_type
\* not_found) and leaves the original store and the derivative cache unchanged.
C13_MissWithoutUpstreamIsNotFound ==
    [][ \A r \in ApiRequests :
          (/\ req[r].pc = "storage" /\ req'[r].pc # "storage"
           /\ StorageGet(req[r].id[1]) = None /\ ~file_api)
          => /\ lastOp'.op = "get" /\ lastOp'.id = req[r].id /\ lastOp'.p = req[r].p
             /\ lastOp'.res = "NotFound"
             /\ GetStatus(lastOp'.res) = 404
             /\ GetErrorType(lastOp'.res) = "not_found"
             /\ req'[r].pc = "idle"
             /\ UNCHANGED <<storage, cacheVars>> ]_vars

\* a get has just returned NotFound for an id with no original, no file API
C13_Witness ==
    /\ lastOp.op = "get" /\ lastOp.res = "NotFound" /\ lastOp.p # None
    /\ ~file_api
    /\ StorageGet(OpId(lastOp)) = None

C15_FetchedOriginalIsReused ==
    [][ \A r \in ApiRequests :
          /\ \A i \in ProcIds, resp \in ApiResponses :
                (GetFetch(r, resp) /\ resp.ok /\ req[r].id = Some(i))
                => StorageGet(i)' = Some(resp.data)
          /\ (/\ req[r].pc = "storage" /\ req'[r].pc # "storage"
              /\ req[r].id[1] \in DOMAIN fetched
              /\ fetched[req[r].id[1]].p # req[r].p[1])
             => req'[r].pc # "fetch" ]_vars

\* C15, amended: the fetched image is stored in the same step, whatever its
\* bytes; when the last fetched bytes of the id are of a supported format, no
\* later get of that id, with any params, goes to the file API; when they are
\* not and are still what the store holds, the next get that misses the cache
\* goes to the file API again.
C15_SniffableFetchIsReused ==
    [][ \A r \in ApiRequests :
          /\ \A i \in ProcIds, resp \in ApiResponses :
                (GetFetch(r, resp) /\ resp.ok /\ req[r].id = Some(i))
                => StorageGet(i)' = Some(resp.data)
          /\ (/\ req[r].pc = "storage" /\ req'[r].pc # "storage"
              /\ req[r].id[1] \in DOMAIN fetched
              /\ fetched[req[r].id[1]].data # 0)
             => req'[r].pc # "fetch"
          /\ (/\ req[r].pc = "storage" /\ req'[r].pc # "storage"
              /\ req[r].id[1] \in DOMAIN fetched
              /\ fetched[req[r].id[1]].data = 0
              /\ StorageGet(req[r].id[1]) = Some(0))
             => req'[r].pc = "fetch" ]_vars

\* a get with other params than the fetching get has just been answered from
\* the stored original that the file API delivered
C15_Witness ==
    /\ lastOp.op = "get" /\ lastOp.res = "Ok" /\ lastOp.branch = "insert"
    /\ OpId(lastOp) \in DOMAIN fetched
    /\ fetched[OpId(lastOp)].data # 0
    /\ fetched[OpId(lastOp)].p # OpParams(lastOp)
    /\ StorageGet(OpId(lastOp)) = Some(fetched[OpId(lastOp)].data)

\* C16: in a get, a stored original whose format cannot be sniffed counts as
\* absent: with a file API configured the get goes on to fetch the id from it,
\* without one it returns NotFound; this step never answers
\* UnsupportingExtension and does not touch the stored bytes.
C16_UnsniffableOriginalIsAbsent ==
    [][ \A r \in ApiRequests, i \in ProcIds :
          (/\ req[r].pc = "storage" /\ req'[r].pc # "storage"
           /\ req[r].id = Some(i)
           /\ StorageGet(i) # None
           /\ get_image_format(StorageGet(i)[1]) = None)
          => /\ file_api => (req'[r].pc = "fetch" /\ req'[r].id = Some(i))
             /\ ~file_api => /\ req'[r].pc = "idle"
                             /\ lastOp'.op = "get" /\ lastOp'.id = Some(i)
                             /\ lastOp'.res = "NotFound"
             /\ ~(lastOp'.op = "get" /\ lastOp'.res = "UnsupportingExtension")
             /\ UNCHANGED <<storage, cacheVars>> ]_vars

\* a get is about to fetch an id whose stored original cannot be sniffed
C16_Witness ==
    \E r \in ApiRequests :
        /\ req[r].pc = "fetch"
        /\ StorageGet(req[r].id[1]) = Some(0)
        /\ file_api

\* C17: UnsupportingExtension comes from prefetch only; no get ends with it,
\* whatever bytes the original store holds or the file API returns.
C17_GetNeverUnsupporting ==
    lastOp.res = "UnsupportingExtension" => lastOp.op = "prefetch"

\* C17, amended: a get ends with UnsupportingExtension (HTTP 400, error_type
\* unsupporting_extension) exactly when the file API has just answered it
\* with bytes of no supported format, which that step stores; the storage
\* check of a get never ends with it.
C17_UnsupportingOnlyFromUpstream ==
    [][ \A r \in ApiRequests, i \in ProcIds :
          /\ (/\ req[r].pc # "idle" /\ req'[r].pc = "idle"
              /\ req[r].id = Some(i)
              /\ lastOp'.res = "UnsupportingExtension")
             => /\ req[r].pc = "fetch"
                /\ lastOp'.op = "get" /\ lastOp'.id = Some(i)
                /\ StorageGet(i)' # None
                /\ get_image_format(storage'[i]) = None
                /\ i \in DOMAIN fetched' /\ fetched'[i].data = storage'[i]
          /\ \A resp \in ApiResponses :
                (/\ GetFetch(r, resp) /\ resp.ok /\ req[r].id = Some(i)
                 /\ get_image_format(resp.data) = None)
                => /\ lastOp'.op = "get" /\ lastOp'.id = Some(i)
                   /\ lastOp'.res = "UnsupportingExtension"
                   /\ GetStatus(lastOp'.res) = 400
                   /\ GetErrorType(lastOp'.res) = "unsupporting_extension"
                   /\ req'[r].pc = "idle"
                   /\ UNCHANGED cacheVars ]_vars

\* a get has just ended with UnsupportingExtension
C17_Witness ==
    /\ lastOp.op = "get" /\ lastOp.res = "UnsupportingExtension"
    /\ StorageGet(OpId(lastOp)) = Some(0)

\* C18: a prefetch of bytes of no image format returns UnsupportingExtension
\* (HTTP 400) and leaves the stored original of the id and the derivative
\* cache as they were; a prefetch of image bytes returns Ok (HTTP 200) and
\* the original store then returns exactly those bytes for the id.
C18_PrefetchSniffs ==
    [][ \A i \in ProcIds, data \in PrefetchData :
          Prefetch(i, data)
          => /\ lastOp'.op = "prefetch" /\ lastOp'.id = Some(i)
             /\ (data = 0)
                   => /\ lastOp'.res = "UnsupportingExtension"
                      /\ PreloadStatus(lastOp'.res) = 400
                      /\ UNCHANGED <<storage, cacheVars>>
             /\ (data # 0)
                   => /\ lastOp'.res = "Ok"
                      /\ PreloadStatus(lastOp'.res) = 200
                      /\ StorageGet(i)' = Some(data) ]_vars

\* a prefetch of bytes of no image format has just been rejected for an id
\* that has a stored original and a cached derivative
C18_Witness ==
    /\ lastOp.op = "prefetch" /\ lastOp.res = "UnsupportingExtension"
    /\ StorageGet(OpId(lastOp)) \in { Some(b) : b \in Bytes }
    /\ \E p \in ProcessingParams : CacheGet(OpId(lastOp), p) # None

C20_InvalidParamsRejectedFirst ==
    [][ \A r \in ApiRequests, i \in ProcIds, p \in RequestParams :
          (/\ ServeFile(r, i, p)
           /\ \/ p.quality # None /\ (p.quality[1] < 10 \/ p.quality[1] > 100)
              \/ p.width # None /\ p.width[1] > max_image_resize.width
              \/ p.height # None /\ p.height[1] > max_image_resize.height)
          => /\ lastOp'.op = "get" /\ lastOp'.id = Some(i)
             /\ lastOp'.res = "InvalidSize"
             /\ GetStatus(lastOp'.res) = 400
             /\ GetErrorType(lastOp'.res) = "invalid_size"
             /\ req'[r].pc = "idle"
             /\ UNCHANGED <<cacheVars, storage, req, fetched>> ]_vars

\* a GET has just been rejected for its params although the original of its
\* id is stored
C20_Witness ==
    /\ lastOp.op = "get" /\ lastOp.res = "InvalidSize"
    /\ StorageGet(OpId(lastOp)) \in { Some(b) : b \in Bytes }

\* C21: after every completed set or remove of the derivative cache, for
\* every id the params that have a payload stored under the id are all in
\* VariantIndex(id) (memory and persistent variant).
C21_PayloadsInIndex ==
    lastOp.op \in {"set", "remove"}
        => \A i \in ImageIds : PayloadParams(i) \subseteq VariantIndex(i)

C28_RemoveTouchesOnlyItsId ==
    [][\A id \in ImageIds :
          Remove(id) =>
              /\ storage' = storage
              /\ \A j \in ImageIds \ {id} :
                    /\ VariantIndex(j)' = VariantIndex(j)
                    /\ \A p \in ProcessingParams :
                          CacheGet(j, p)' = CacheGet(j, p)]_vars

\* remove("a") has completed and left nothing of "a", while the id "a_{"
\* still has a payload and its index entry
C28_WitnessLongerIdKept ==
    /\ lastOp.op = "remove"
    /\ lastOp.id = Some(<<"a">>)
    /\ PayloadParams(<<"a">>) = {}
    /\ PayloadParams(<<"a", "_", "{">>) # {}
    /\ VariantIndex(<<"a", "_", "{">>) # {}

(***************************************************************************)
(* Params that differ only in a field being absent or holding its default. *)
(***************************************************************************)
DEFAULT_COMPRESSION_QUALITY == 82

\* DEFAULT_EXTENSION, and the fallback of _process_image
default_extension == "Webp"

\* the values resize and cast_to_extension work with: every absent field
\* that has a default replaced by it
EffectiveParams(p) ==
    [p EXCEPT !.extension = IF @ = None THEN Some(default_extension) ELSE @,
              !.quality = IF @ = None THEN Some(DEFAULT_COMPRESSION_QUALITY) ELSE @,
              !.ratio_policy = IF @ = None THEN Some("CropToCenter") ELSE @]

\* the spellings of the default variant a client can send
EquivalentParams ==
    { [width |-> None, height |-> None, extension |-> e, quality |-> q,
       ratio_policy |-> r] :
        e \in {None, Some(default_extension)},
        q \in {None, Some(DEFAULT_COMPRESSION_QUALITY)},
        r \in {None, Some("CropToCenter")} }

\* _process_image stores, and Processor::get looks up, under the params as
\* the request spelled them
ParamsNext ==
    \/ \E p \in EquivalentParams :
          Set(<<"a">>, p, ImageContainer(1, EffectiveParams(p)))
    \/ \E p \in EquivalentParams : Get(<<"a">>, p)

SpecParams == Init /\ [][ParamsNext]_vars

\* C27: params that differ only in a field being absent or holding its
\* default identify the same derivative-cache key in both variants: once a
\* set of one spelling has stored its payload, a get of every equivalent
\* spelling is a hit, and no two equivalent spellings occupy two slots of
\* VariantIndex(id).
C27_EquivalentParamsShareKey ==
    /\ \A p, q \in VariantIndex(<<"a">>) :
          EffectiveParams(p) = EffectiveParams(q) => p = q
    /\ (lastOp.op = "set" /\ lastOp.branch \in {"insert", "rewrite", "exists"})
          => \A q \in EquivalentParams :
                EffectiveParams(q) = EffectiveParams(lastOp.p[1])
                    => CacheGet(<<"a">>, q) # None

(***************************************************************************)
(* The persistent derivative cache, one engine operation per step: set     *)
(* (records_count, have_record, _insert), get and remove over the          *)
(* PersistentStore, each engine operation succeeding or failing, and the   *)
(* process crashing between any two of them.                               *)
(***************************************************************************)
\* an entry of the history of engine mutations a call has issued
Mutation(op, space, key) == [op |-> op, space |-> space, key |-> key]

\* the step of _insert that follows the step at pc, the index write put
\* before the payload write
InsertAfterIndexFirst(pc, pops) ==
    CASE pc = "read_entries" -> IF pops THEN "pop" ELSE "index"
      [] pc = "pop" -> "index"
      [] pc = "index" -> "payload"
      [] pc = "payload" -> "done"

\* the step of _insert that follows the step at pc
InsertAfter(pc, pops) ==
    CASE pc = "read_entries" -> IF pops THEN "pop" ELSE "payload"
      [] pc = "pop" -> "payload"
      [] pc = "payload" -> "index"
      [] pc = "index" -> "done"

\* no window between the payload write and the index write
PayloadNeverAhead(c) == FALSE

\* the call has written its payload and not its index entry
PayloadAhead(c) ==
    /\ c.op = "set"
    /\ \E i \in 1..Len(c.log) : c.log[i].op = "set" /\ c.log[i].space = "cache"
    /\ ~\E i \in 1..Len(c.log) :
            c.log[i].op = "set" /\ c.log[i].space = "cache_entries"

\* a call begins: nothing else is in progress (the caller holds the lock of
\* Processor.cache)
StoreBegin(op, pc, image_id, params, image) ==
    /\ variant = "Persistent"
    /\ call.pc = "idle"
    /\ call' = [IdleCall EXCEPT !.op = op, !.pc = pc, !.id = Some(image_id),
                                !.p = params, !.img = image]
    /\ UNCHANGED <<torn, lastOp, cacheVars>>

\* the call returns res to its caller
StoreReturn(c, res, branch) ==
    /\ call' = [c EXCEPT !.pc = "idle"]
    /\ lastOp' = [NoOp EXCEPT !.op = c.op, !.id = c.id, !.p = c.p, !.v = c.img,
                              !.res = res, !.branch = branch]

\* an unwrap() of an engine error: the task of the request unwinds where it is
StorePanic ==
    /\ StoreReturn(call, "Panic", "none")
    /\ torn' = IF PayloadAhead(call) THEN torn \cup {"set_cut"} ELSE torn
    /\ UNCHANGED cacheVars

\* the step at pc goes on to the step next, or returns Ok after the last
StoreAdvance(c, next) ==
    IF next = "done" THEN StoreReturn(c, "Ok", IF c.pops THEN "rewrite" ELSE "insert")
    ELSE call' = [c EXCEPT !.pc = next] /\ UNCHANGED lastOp

\* set: records_count, store.get(CacheEntries, image_id)
StoreRecordsCount(ok) ==
    /\ call.pc = "records_count"
    /\ IF ok
       THEN /\ call' = [call EXCEPT !.pc = "have_record",
                                    !.count = records_count(call.id[1])]
            /\ UNCHANGED <<torn, lastOp, cacheVars>>
       ELSE StorePanic

\* set: have_record, store.get(Cache, key), and the match on what was read
StoreHaveRecord(ok) ==
    /\ call.pc = "have_record"
    /\ IF ok
       THEN LET arm == SetArm(have_record(call.id[1], call.p[1]), call.count)
            IN  /\ IF arm \in {"exists", "restrict"}
                   THEN StoreReturn(call, SetResult(arm), arm)
                   ELSE /\ call' = [call EXCEPT !.pc = "read_entries",
                                                !.pops = (arm = "rewrite")]
                        /\ UNCHANGED lastOp
                /\ UNCHANGED <<torn, cacheVars>>
       ELSE StorePanic

\* _insert: store.get(CacheEntries, image_id) into the local entries
StoreReadEntries(ok) ==
    /\ call.pc = "read_entries"
    /\ IF ok
       THEN LET entries == PersEntries(call.id[1])
                pops == call.pops /\ Cardinality(entries) > 0
            IN  /\ call' = [call EXCEPT !.entries = entries, !.pops = pops,
                                 !.pc = InsertAfter("read_entries", pops)]
                /\ UNCHANGED <<torn, lastOp, cacheVars>>
       ELSE StorePanic

\* _insert: entries.pop_last() and store.remove(Cache, last_key); remove
\* drops the engine's error
StorePop(ok) ==
    /\ call.pc = "pop"
    /\ LET last == PopLastPair(call.entries)
           last_key == cache_key(last[1], last[2])
           c == [call EXCEPT !.entries = @ \ {last},
                             !.log = Append(@, Mutation("remove", "cache", last_key))]
       IN  /\ cache_keyspace' = IF ok THEN StoreRemove(cache_keyspace, last_key)
                                ELSE cache_keyspace
           /\ torn' = IF ok THEN torn ELSE torn \cup {"evict_failed"}
           /\ StoreAdvance(c, InsertAfter("pop", TRUE))
    /\ UNCHANGED <<cache, cache_entries, cache_entries_keyspace>>

\* _insert: store.set(Cache, key, image)
StorePayload(ok) ==
    /\ call.pc = "payload"
    /\ IF ok
       THEN LET key == cache_key(call.id[1], call.p[1])
                c == [call EXCEPT !.log = Append(@, Mutation("set", "cache", key))]
            IN  /\ cache_keyspace' = StoreSet(cache_keyspace, key, call.img[1])
                /\ StoreAdvance(c, InsertAfter("payload", call.pops))
                /\ UNCHANGED <<torn, cache, cache_entries, cache_entries_keyspace>>
       ELSE StorePanic

\* _insert: entries.insert and store.set(CacheEntries, image_id, entries)
StoreIndex(ok) ==
    /\ call.pc = "index"
    /\ IF ok
       THEN LET entries == call.entries \cup {<<call.id[1], call.p[1]>>}
                c == [call EXCEPT !.entries = entries,
                          !.log = Append(@, Mutation("set", "cache_entries", call.id[1]))]
            IN  /\ cache_entries_keyspace' =
                       StoreSet(cache_entries_keyspace, call.id[1], entries)
                /\ StoreAdvance(c, InsertAfter("index", call.pops))
                /\ UNCHANGED <<torn, cache, cache_entries, cache_keyspace>>
       ELSE StorePanic

\* get: store.get(Cache, key)
StoreGetPayload(ok) ==
    /\ call.pc = "get"
    /\ IF ok
       THEN /\ StoreReturn(call,
                  IF CacheGet(call.id[1], call.p[1]) = None THEN "Miss" ELSE "Hit",
                  "none")
            /\ UNCHANGED <<torn, cacheVars>>
       ELSE StorePanic

\* the keys of ks that remove_by_prefix iterates over
PrefixMatches(ks, prefix) == { k \in DOMAIN ks : IsPrefix(to_stdvec(prefix), k) }

\* remove: store.remove_by_prefix(Cache, "<id>_{"); an error of the iterator
\* is unwrapped, the error of a key's remove dropped (the keys in failed stay)
StoreRemovePrefix(ok) ==
    /\ call.pc = "remove_by_prefix"
    /\ IF ok
       THEN \E failed \in SUBSET PrefixMatches(cache_keyspace, RemovePrefix(call.id[1])) :
               /\ cache_keyspace' =
                      RestrictTo(cache_keyspace,
                          { k \in DOMAIN cache_keyspace :
                              \/ k \in failed
                              \/ k \notin PrefixMatches(cache_keyspace,
                                                        RemovePrefix(call.id[1])) })
               /\ StoreReturn(call, "Ok", "none")
               /\ torn' = IF failed = {} THEN torn ELSE torn \cup {"prefix_failed"}
               /\ UNCHANGED <<cache, cache_entries, cache_entries_keyspace>>
       ELSE StorePanic

\* the process dies between two engine operations of a call and is started
\* again: the keyspaces are as the completed operations left them
StoreCrash ==
    /\ call.pc # "idle"
    /\ StoreReturn(call, "Crashed", "none")
    /\ torn' = IF PayloadAhead(call) THEN torn \cup {"set_cut"} ELSE torn
    /\ UNCHANGED cacheVars

StoreFrame ==
    UNCHANGED <<variant, policy, evictions, procVars, shutdownVars, auxVars>>

StoreInit == Init /\ variant = "Persistent"

StoreNext ==
    \/ \E i \in ProcIds, p \in ProcessingParams :
          StoreBegin("set", "records_count", i, Some(p), Some(ImageContainer(1, p)))
              /\ StoreFrame
    \/ \E i \in ProcIds, p \in ProcessingParams :
          StoreBegin("get", "get", i, Some(p), None) /\ StoreFrame
    \/ \E i \in ProcIds :
          StoreBegin("remove", "remove_by_prefix", i, None, None) /\ StoreFrame
    \/ \E ok \in BOOLEAN : StoreRecordsCount(ok) /\ StoreFrame
    \/ \E ok \in BOOLEAN : StoreHaveRecord(ok) /\ StoreFrame
    \/ \E ok \in BOOLEAN : StoreReadEntries(ok) /\ StoreFrame
    \/ \E ok \in BOOLEAN : StorePop(ok) /\ StoreFrame
    \/ \E ok \in BOOLEAN : StorePayload(ok) /\ StoreFrame
    \/ \E ok \in BOOLEAN : StoreIndex(ok) /\ StoreFrame
    \/ \E ok \in BOOLEAN : StoreGetPayload(ok) /\ StoreFrame
    \/ \E ok \in BOOLEAN : StoreRemovePrefix(ok) /\ StoreFrame
    \/ StoreCrash /\ StoreFrame

SpecStore == StoreInit /\ [][StoreNext]_vars

\* C29: in every execution of the persistent set that inserts, the payload
\* of (id, p) is written to the cache keyspace before the index of id is
\* written to cache_entries, and under Rewrite the evicted payload is
\* removed before the new payload is written; a set that returns Ok after
\* inserting has issued exactly these mutations, in this order.
C29_PayloadBeforeIndex ==
    call.op = "set" =>
        /\ \A j \in 1..Len(call.log) :
              (call.log[j].op = "set" /\ call.log[j].space = "cache_entries")
                  => \E i \in 1..(j - 1) :
                        call.log[i] = Mutation("set", "cache",
                                               cache_key(call.id[1], call.p[1]))
        /\ \A j \in 1..Len(call.log) :
              (call.log[j].op = "set" /\ call.log[j].space = "cache" /\ call.pops)
                  => \E i \in 1..(j - 1) :
                        call.log[i].op = "remove" /\ call.log[i].space = "cache"
        /\ (call.pc = "idle" /\ lastOp.res = "Ok"
              /\ lastOp.branch \in {"insert", "rewrite"})
              => /\ Len(call.log) = IF call.pops THEN 3 ELSE 2
                 /\ call.log[Len(call.log)] =
                        Mutation("set", "cache_entries", call.id[1])

\* a set under Rewrite has evicted, written its payload and its index and
\* returned Ok
C29_WitnessRewriteDone ==
    /\ call.op = "set"
    /\ call.pc = "idle"
    /\ lastOp.res = "Ok"
    /\ lastOp.branch = "rewrite"
    /\ Len(call.log) = 3
    /\ call.p[1] \in VariantIndex(call.id[1])

\* C30 (as claimed): in the persistent variant a stored payload whose param
\* is not in the VariantIndex of its id arises only from a partial failure
\* of remove_by_prefix; in every other state between calls, the state
\* recovered after a crash between two steps of set or remove included,
\* every stored payload's param is in the index of its id.
C30_OrphansOnlyFromRemove ==
    (call.pc = "idle" /\ "prefix_failed" \notin torn)
        => \A i \in ProcIds : PayloadParams(i) \subseteq VariantIndex(i)

\* C30 (amended): such a payload arises only from a partial failure of
\* remove_by_prefix, from a set cut short (by a crash or an engine error)
\* between its payload write and its index write, or from a failed removal
\* of the payload a Rewrite evicts; in every other state, the state
\* recovered after a crash between any other two steps of set or remove
\* included, every stored payload's param is in the index of its id.
C30_OrphansOnlyFromCutSet ==
    (torn = {} /\ ~(call.pc # "idle" /\ PayloadAhead(call)))
        => \A i \in ProcIds : PayloadParams(i) \subseteq VariantIndex(i)

\* the process crashed inside a set that had removed the evicted payload and
\* not yet written its own, nothing has failed partially, and payloads are
\* stored
C30_WitnessCrashElsewhere ==
    /\ lastOp.res = "Crashed"
    /\ lastOp.op = "set"
    /\ call.pc = "idle"
    /\ torn = {}
    /\ Len(call.log) = 1
    /\ PayloadParams(<<"a">>) # {}

\* C26: an engine I/O error never aborts a request: every get, set and
\* remove of the persistent cache returns to its caller (a failing read as
\* a miss, a failing mutation dropped), none ends by unwinding.
C26_EngineErrorsNeverAbort ==
    lastOp.op \in {"get", "set", "remove"}
        => lastOp.res \in {"Hit", "Miss", "Ok", "LimitExceeded", "Crashed"}

(***************************************************************************)
(* Background scheduler and graceful shutdown: serve_background's tasks,   *)
(* the requests of the server, and main from the signal to its exit.       *)
(***************************************************************************)
\* requests in flight at once
MaxInflight == 2
\* engine writes the requests of one run complete
MaxWrites == 2

\* the services main passed to serve_background
Registered == DOMAIN task

\* background_services as main iterates it
StopOrder == SelectSeq(background_services, LAMBDA s : s \in Registered)

\* db.persist(PersistMode::SyncAll): everything written so far is durable,
\* unless the engine reports an error (which is only warned about)
Persist(ok) == IF ok THEN writes ELSE persisted

\* BackgroundService::stop of service s: the tiers send true on their
\* cancel_chan, StorageBackgroundAdapter persists the store
ServiceStop(s, ok) ==
    IF s = "persistent_store"
    THEN persisted' = Persist(ok) /\ UNCHANGED cancel
    ELSE /\ cancel' = [cancel EXCEPT ![s] = [value |-> TRUE,
                                             version |-> @.version + 1]]
         /\ UNCHANGED persisted

ShutdownFrame ==
    UNCHANGED <<variant, policy, evictions, lastOp, cacheVars, procVars, storeVars,
                auxVars>>

\* ctrl_c, SIGTERM or SIGINT arrives: shutdown_signal passes its select!
ShutdownSignal ==
    /\ main_pc = "serving"
    /\ main_pc' = "stopping"
    /\ UNCHANGED <<stopped, cancel, task, accepting, inflight, writes, persisted,
                   writes_at_stop>>
    /\ ShutdownFrame

\* shutdown_signal: s.write().await and stop() of the next service
StopNext(ok) ==
    /\ main_pc = "stopping"
    /\ LET s == StopOrder[Len(stopped) + 1]
       IN  /\ ServiceStop(s, ok)
           /\ stopped' = Append(stopped, s)
           /\ writes_at_stop' = IF s = "persistent_store" THEN writes
                                ELSE writes_at_stop
    /\ main_pc' = IF Len(stopped) + 1 = Len(StopOrder) THEN "joining" ELSE "stopping"
    /\ UNCHANGED <<task, accepting, inflight, writes>>
    /\ ShutdownFrame

\* shutdown_signal: join_all() returns once every task has exited; the
\* future given to with_graceful_shutdown completes and the server stops
\* accepting
JoinAll ==
    /\ main_pc = "joining"
    /\ \A s \in Registered : task[s].pc = "exited"
    /\ main_pc' = "draining"
    /\ accepting' = FALSE
    /\ UNCHANGED <<stopped, cancel, task, inflight, writes, persisted, writes_at_stop>>
    /\ ShutdownFrame

\* axum::serve returns once the requests in flight are answered
Drained ==
    /\ main_pc = "draining"
    /\ inflight = 0
    /\ main_pc' = "exited"
    /\ UNCHANGED <<stopped, cancel, task, accepting, inflight, writes, persisted,
                   writes_at_stop>>
    /\ ShutdownFrame

\* the task of s runs for the first time: period and cancel_token() read; the
\* receiver is a clone of cancel_chan.1, which has seen version 0
TaskStart(s) ==
    /\ main_pc # "exited"
    /\ task[s].pc = "spawned"
    /\ task' = [task EXCEPT ![s] = [pc |-> "select", seen |-> 0]]
    /\ UNCHANGED <<main_pc, stopped, cancel, accepting, inflight, writes, persisted,
                   writes_at_stop>>
    /\ ShutdownFrame

\* select!: sleep(interval) elapsed, background() runs under the write guard
TaskBackground(s, ok) ==
    /\ main_pc # "exited"
    /\ task[s].pc = "select"
    /\ persisted' = IF s = "persistent_store" THEN Persist(ok) ELSE persisted
    /\ UNCHANGED <<main_pc, stopped, cancel, task, accepting, inflight, writes,
                   writes_at_stop>>
    /\ ShutdownFrame

\* select!: rx.changed() resolves because the channel's version is not the
\* one the receiver has seen; the task breaks if the value is true
TaskChanged(s) ==
    /\ main_pc # "exited"
    /\ task[s].pc = "select"
    /\ cancel[s].version # task[s].seen
    /\ task' = [task EXCEPT ![s] =
                   [pc |-> IF cancel[s].value THEN "exited" ELSE "select",
                    seen |-> cancel[s].version]]
    /\ UNCHANGED <<main_pc, stopped, cancel, accepting, inflight, writes, persisted,
                   writes_at_stop>>
    /\ ShutdownFrame

\* the listener accepts a request
RequestArrives ==
    /\ main_pc # "exited"
    /\ accepting
    /\ inflight < MaxInflight
    /\ inflight' = inflight + 1
    /\ UNCHANGED <<main_pc, stopped, cancel, task, accepting, writes, persisted,
                   writes_at_stop>>
    /\ ShutdownFrame

\* a request is answered, having written to the store (w) or not
RequestCompletes(w) ==
    /\ main_pc # "exited"
    /\ inflight > 0
    /\ inflight' = inflight - 1
    /\ writes' = IF w /\ writes < MaxWrites THEN writes + 1 ELSE writes
    /\ UNCHANGED <<main_pc, stopped, cancel, task, accepting, persisted,
                   writes_at_stop>>
    /\ ShutdownFrame

\* the server once main has built it: the tiers registered, and with a
\* persistent store configured its adapter too
ServerInit ==
    /\ \E ss \in { {"storage", "cache"}, Services } :
          /\ cancel = [s \in ss |-> [value |-> FALSE, version |-> 0]]
          /\ task = [s \in ss |-> [pc |-> "spawned", seen |-> 0]]
          /\ variant = IF "persistent_store" \in ss THEN "Persistent" ELSE "InMemory"
    /\ policy = "Restrict"
    /\ cache = EmptyMap
    /\ cache_entries = EmptyMap
    /\ cache_keyspace = EmptyMap
    /\ cache_entries_keyspace = EmptyMap
    /\ evictions = 0
    /\ lastOp = NoOp
    /\ fetched = EmptyMap
    /\ cache_writer = None
    /\ set_lock = None
    /\ req = [r \in Requests |-> IdleReq]
    /\ storage = EmptyMap
    /\ file_api = FALSE
    /\ api_key = ""
    /\ call = IdleCall
    /\ torn = {}
    /\ main_pc = "serving"
    /\ stopped = <<>>
    /\ accepting = TRUE
    /\ inflight = 0
    /\ writes = 0
    /\ persisted = 0
    /\ writes_at_stop = 0

\* the scheduler and shutdown alone, the locks left out
ShutdownInit == ServerInit /\ AuxInit

ShutdownNext ==
    \/ ShutdownSignal
    \/ \E ok \in BOOLEAN : StopNext(ok)
    \/ JoinAll
    \/ Drained
    \/ \E s \in Registered : TaskStart(s)
    \/ \E s \in Registered, ok \in BOOLEAN : TaskBackground(s, ok)
    \/ \E s \in Registered : TaskChanged(s)
    \/ RequestArrives
    \/ \E w \in BOOLEAN : RequestCompletes(w)

SpecShutdown == ShutdownInit /\ [][ShutdownNext]_vars

\* tokio runs every task that is ready: main goes on when it can, a task is
\* started, a task whose receiver has a change pending is woken, a request
\* is answered (the TimeoutLayer bounds it); signals, arrivals and timer
\* ticks are not forced
SpecShutdownFair ==
    /\ SpecShutdown
    /\ WF_vars(\E ok \in BOOLEAN : StopNext(ok))
    /\ WF_vars(JoinAll)
    /\ WF_vars(Drained)
    /\ \A s \in Services : WF_vars(s \in Registered /\ TaskStart(s))
    /\ \A s \in Services : WF_vars(s \in Registered /\ TaskChanged(s))
    /\ WF_vars(\E w \in BOOLEAN : RequestCompletes(w))

\* C23: after shutdown is triggered, stop() is invoked on every background
\* service, every task the scheduler spawned observes the cancel signal and
\* exits, and awaiting the tasks completes, so that main comes to its end.
C23_ShutdownTerminates ==
    (main_pc = "stopping")
        ~> (/\ main_pc = "exited"
            /\ Len(stopped) = Len(StopOrder)
            /\ \A s \in Registered : task[s].pc = "exited")

\* C24: on shutdown the server stops accepting and drains the requests in
\* flight before any stop() is invoked: no stop() runs while the listener
\* accepts or a request is in flight.
C24_StopAfterDrain ==
    [][(\E ok \in BOOLEAN : StopNext(ok)) => (~accepting /\ inflight = 0)]_vars

\* C25: with a persistent store configured, graceful shutdown comes to its
\* end with every write that had completed when the store's stop() was
\* invoked made durable.
C25_WritesDurableAtShutdown ==
    ("persistent_store" \in Registered /\ main_pc = "stopping")
        ~> (main_pc = "exited" /\ persisted >= writes_at_stop)

(***************************************************************************)
(* The variant budget of an id after remove, and the set of a param that   *)
(* holds a slot of the index while its payload is gone.                    *)
(***************************************************************************)
\* C34: after remove(id) the variant budget of id is fully available again;
\* here for the first of the sets that follow: the set of id made directly
\* after remove(id) returns Ok and evicts nothing, under both policies and
\* in both variants.
C34_BudgetFreeAfterRemove ==
    [][ \A i \in ImageIds, p \in ProcessingParams :
          (lastOp.op = "remove" /\ lastOp.id = Some(i) /\ IsSet(i, p))
              => (lastOp'.res = "Ok" /\ lastOp'.evicted = None) ]_vars

\* C35: a set of a param that is in the variant index of its id while its
\* payload is absent stores the payload and returns Ok; it is not refused
\* and it evicts no other variant of the id, however full the index is.
C35_IndexedParamIsReadmitted ==
    [][ \A i \in ImageIds, p \in ProcessingParams :
          (IsSet(i, p) /\ p \in VariantIndex(i) /\ CacheGet(i, p) = None)
              => /\ lastOp'.res = "Ok"
                 /\ CacheGet(i, p)' = lastOp'.v
                 /\ \A q \in VariantIndex(i) \ {p} :
                        /\ q \in VariantIndex(i)'
                        /\ CacheGet(i, q)' = CacheGet(i, q) ]_vars

\* C39: once stop() of a background service has returned, the task the
\* scheduler spawned for that service never invokes its background() again.
C39_NoBackgroundAfterStop ==
    [][ \A s \in Services :
          (s \in Registered /\ \E ok \in BOOLEAN : TaskBackground(s, ok))
              => \A k \in 1..Len(stopped) : stopped[k] # s ]_vars

(***************************************************************************)
(* What the original store is given to hold.                               *)
(***************************************************************************)
\* C40, as claimed: bytes are stored in the original store only after a
\* successful format sniff, by prefetch and by the upstream-fetch path of
\* get alike: every step that stores bytes under an id stores bytes of a
\* supported image format.
C40_StoredAfterSniff ==
    [][ \A i \in ProcIds :
          (i \in DOMAIN storage' /\ (i \notin DOMAIN storage \/ storage'[i] # storage[i]))
              => get_image_format(storage'[i]) # None ]_vars

\* C40, amended: prefetch stores bytes only after a successful sniff; get
\* stores the body of a 200 answer of the file API before it is sniffed, so
\* that bytes of no supported format enter the store only as the body a
\* fetch has just returned, in a get that ends with UnsupportingExtension.
C40_UnsniffedOnlyFromFetch ==
    [][ \A i \in ProcIds :
          (i \in DOMAIN storage' /\ (i \notin DOMAIN storage \/ storage'[i] # storage[i]))
              => \/ get_image_format(storage'[i]) # None
                 \/ /\ lastOp'.op = "get" /\ lastOp'.id = Some(i)
                    /\ lastOp'.res = "UnsupportingExtension"
                    /\ i \in DOMAIN fetched' /\ fetched'[i].data = storage'[i] ]_vars

\* a get has ended with UnsupportingExtension and the store holds the body of
\* no supported format its fetch returned
C40_WitnessUnsniffedStored ==
    /\ lastOp.op = "get" /\ lastOp.res = "UnsupportingExtension"
    /\ OpId(lastOp) \in DOMAIN storage
    /\ get_image_format(storage[OpId(lastOp)]) = None
    /\ OpId(lastOp) \in DOMAIN fetched
    /\ fetched[OpId(lastOp)].data = storage[OpId(lastOp)]

(***************************************************************************)
(* Two gets of the same uncached (id, params) in flight at once.           *)
(***************************************************************************)
\* C36, as claimed: of two concurrent gets of the same uncached (id, p), the
\* set that arrives first stores the payload of (id, p) with p in the
\* variant index, and the set that arrives second finds the key, changes
\* nothing and evicts nothing, so that afterwards (id, p) has its one payload
\* and p its one slot.
C36_ConcurrentGetsCacheOnce ==
    [][ \A r \in Requests, t \in ProcTargets :
          (/\ req[r].pc = "insert" /\ req'[r].pc = "idle"
           /\ req[r].id = Some(t[1]) /\ req[r].p = Some(t[2]))
          => /\ (\E o \in Requests \ {r} :
                    /\ req[o].pc \in {"storage", "fetch", "wlock"}
                    /\ req[o].id = Some(t[1]) /\ req[o].p = Some(t[2]))
                  => /\ CacheGet(t[1], t[2])' # None
                     /\ t[2] \in VariantIndex(t[1])'
             /\ CacheGet(t[1], t[2]) # None
                  => /\ UNCHANGED cacheVars
                     /\ t[2] \in VariantIndex(t[1])' ]_vars

\* C36, amended: the same, provided the set that arrives first is admitted;
\* under Restrict with the index of id full and p not stored the first set
\* is refused and nothing is cached.  The set that arrives second changes
\* nothing when it finds the payload of (id, p) stored.
C36_AdmittedConcurrentGetsCacheOnce ==
    [][ \A r \in Requests, t \in ProcTargets :
          (/\ req[r].pc = "insert" /\ req'[r].pc = "idle"
           /\ req[r].id = Some(t[1]) /\ req[r].p = Some(t[2]))
          => /\ (/\ \E o \in Requests \ {r} :
                       /\ req[o].pc \in {"storage", "fetch", "wlock"}
                       /\ req[o].id = Some(t[1]) /\ req[o].p = Some(t[2])
                 /\ ~(/\ policy = "Restrict"
                      /\ CacheGet(t[1], t[2]) = None
                      /\ records_count(t[1]) >= max_options_per_image))
                  => /\ CacheGet(t[1], t[2])' # None
                     /\ t[2] \in VariantIndex(t[1])'
             /\ CacheGet(t[1], t[2]) # None
                  => /\ UNCHANGED cacheVars
                     /\ t[2] \in VariantIndex(t[1])' ]_vars

\* the second of two concurrent gets has returned: its set found the key the
\* first had stored after both had missed the cache, and the index is full
C36_WitnessSecondSetNoop ==
    /\ lastOp.op = "get" /\ lastOp.res = "Ok" /\ lastOp.branch = "exists"
    /\ ~lastOp.solo
    /\ CacheGet(OpId(lastOp), OpParams(lastOp)) # None
    /\ OpParams(lastOp) \in VariantIndex(OpId(lastOp))
    /\ Cardinality(VariantIndex(OpId(lastOp))) = max_options_per_image

(***************************************************************************)
(* The GET validation and resize: serve_file's two checks, then the sizes  *)
(* image_processing::resize computes for a decoded original.               *)
(***************************************************************************)
\* the longest side of a decoded original
MaxSide == 3

\* img.width() and img.height() of the decoded original
SourceSizes == { [width |-> a, height |-> b] : a, b \in 1..MaxSide }

\* the queries of a GET that differ in what resize reads: width and height
\* absent, zero, allowed and above max_image_resize, every ratio_policy
ResizeQueries ==
    { [DefaultParams EXCEPT !.width = w, !.height = h, !.ratio_policy = rp] :
        w \in {None} \cup { Some(n) : n \in 0..(MaxWidth + 1) },
        h \in {None} \cup { Some(n) : n \in 0..(MaxWidth + 1) },
        rp \in {None, Some("Resize"), Some("CropToCenter")} }

\* (n as f64 / d as f64).round(): the nearest integer, a half away from zero;
\* for the sides considered here the f64 quotient rounds as the exact one
Round(n, d) == (2 * n + d) \div (2 * d)

\* a resize that scales to fit inside the target: the two cover branches
\* exchanged
resize_to_fit(img, width, height, ratio_policy) ==
    LET w == IF width = None THEN img.width ELSE width[1]
        h == IF height = None THEN img.height ELSE height[1]
        policy_ == IF ratio_policy = None THEN "CropToCenter" ELSE ratio_policy[1]
        same == h # 0 /\ img.width * h = w * img.height
        wider == img.width * h > w * img.height
        cover == IF policy_ = "Resize" \/ same THEN <<w, h>>
                 ELSE IF wider THEN <<w, Round(w * img.height, img.width)>>
                 ELSE <<Round(h * img.width, img.height), h>>
        offset == IF policy_ = "Resize" \/ same THEN <<0, 0>>
                  ELSE << (IF cover[1] > w THEN cover[1] - w ELSE 0) \div 2,
                          (IF cover[2] > h THEN cover[2] - h ELSE 0) \div 2 >>
        x == IF offset[1] < cover[1] THEN offset[1] ELSE cover[1]
        y == IF offset[2] < cover[2] THEN offset[2] ELSE cover[2]
    IN  [target |-> <<w, h>>, cover |-> cover, offset |-> offset,
         out |-> << IF w < cover[1] - x THEN w ELSE cover[1] - x,
                    IF h < cover[2] - y THEN h ELSE cover[2] - y >>]

\* image_processing::resize on an original of size img: the target <<w, h>>,
\* the size the original is scaled to, the crop offsets and the size of the
\* image returned.  orig_ratio and target_ratio are compared as the fractions
\* they are; a target height of 0 gives a ratio that is infinite or NaN and
\* compares neither equal to nor below orig_ratio.  crop() clamps the
\* window to the image.
resize(img, width, height, ratio_policy) ==
    LET w == IF width = None THEN img.width ELSE width[1]
        h == IF height = None THEN img.height ELSE height[1]
        policy_ == IF ratio_policy = None THEN "CropToCenter" ELSE ratio_policy[1]
        same == h # 0 /\ img.width * h = w * img.height
        wider == img.width * h > w * img.height
        cover == IF policy_ = "Resize" \/ same THEN <<w, h>>
                 ELSE IF wider THEN <<Round(h * img.width, img.height), h>>
                 ELSE <<w, Round(w * img.height, img.width)>>
        offset == IF policy_ = "Resize" \/ same THEN <<0, 0>>
                  ELSE << (IF cover[1] > w THEN cover[1] - w ELSE 0) \div 2,
                          (IF cover[2] > h THEN cover[2] - h ELSE 0) \div 2 >>
        x == IF offset[1] < cover[1] THEN offset[1] ELSE cover[1]
        y == IF offset[2] < cover[2] THEN offset[2] ELSE cover[2]
    IN  [target |-> <<w, h>>, cover |-> cover, offset |-> offset,
         out |-> << IF w < cover[1] - x THEN w ELSE cover[1] - x,
                    IF h < cover[2] - y THEN h ELSE cover[2] - y >>]

\* serve_file for a query over a stored original of size img that no cached
\* derivative answers: the two validations, then Processor::get, which
\* hands width, height and ratio_policy to resize as they came
ServeResize(img, query) ==
    /\ resized' =
          Some([img |-> img, query |-> query,
                status |-> IF /\ validate_processing_params(query)
                              /\ is_allowed_size(max_image_resize, query.width,
                                                 query.height)
                           THEN "processed" ELSE "InvalidSize",
                sizes |-> resize(img, query.width, query.height,
                                 query.ratio_policy)])
    /\ UNCHANGED <<variant, policy, evictions, lastOp, cacheVars, procVars,
                   storeVars, shutdownVars, config, guards, ops>>

ResizeNext == \E img \in SourceSizes, query \in ResizeQueries : ServeResize(img, query)

\* one configuration is enough: nothing here reads the derivative cache
ResizeInit == Init /\ variant = "InMemory" /\ policy = "Restrict"

SpecResize == ResizeInit /\ [][ResizeNext]_vars

\* C31: every query that passes the validation of GET has width and height
\* each either absent or an integer from 1 to max_image_resize's; a request
\* with width=0 or height=0 is refused and does not reach the Processor.
C31_ValidatedSizesArePositive ==
    (resized # None /\ resized[1].status = "processed")
        => /\ resized[1].query.width = None
              \/ resized[1].query.width[1] \in 1..max_image_resize.width
           /\ resized[1].query.height = None
              \/ resized[1].query.height[1] \in 1..max_image_resize.height

\* C32: for a source and a target of positive sides, resize under
\* CropToCenter with differing ratios scales the source to a cover size
\* (W', H') with W' >= W and H' >= H (W' = round(H*sw/sh) and H' = H when
\* the source is the wider, W' = W and H' = round(W*sh/sw) otherwise), crops
\* at floor((W'-W)/2), floor((H'-H)/2) a window that lies inside the cover
\* image, and returns exactly W x H; under Resize or with equal ratios it
\* returns exactly W x H as well.
C32_CoverThenCropIsExact ==
    (resized # None /\ resized[1].status = "processed"
        /\ resized[1].sizes.target[1] > 0 /\ resized[1].sizes.target[2] > 0)
        => LET sw == resized[1].img.width
               sh == resized[1].img.height
               W == resized[1].sizes.target[1]
               H == resized[1].sizes.target[2]
               got == resized[1].sizes
               crops == /\ resized[1].query.ratio_policy # Some("Resize")
                        /\ sw * H # W * sh
           IN  /\ got.out = <<W, H>>
               /\ crops =>
                    /\ got.cover = IF sw * H > W * sh
                                   THEN <<(2 * H * sw + sh) \div (2 * sh), H>>
                                   ELSE <<W, (2 * W * sh + sw) \div (2 * sw)>>
                    /\ got.cover[1] >= W /\ got.cover[2] >= H
                    /\ got.offset = <<(got.cover[1] - W) \div 2,
                                      (got.cover[2] - H) \div 2>>
                    /\ got.offset[1] + W <= got.cover[1]
                    /\ got.offset[2] + H <= got.cover[2]

\* a source wider than the target has been scaled to the target's height
\* and cropped at a positive horizontal offset
C32_WitnessCropped ==
    /\ resized # None
    /\ resized[1].status = "processed"
    /\ resized[1].query.ratio_policy # Some("Resize")
    /\ resized[1].sizes.target = <<1, 1>>
    /\ resized[1].img = [width |-> 3, height |-> 1]
    /\ resized[1].sizes.cover = <<3, 1>>
    /\ resized[1].sizes.offset = <<1, 0>>
    /\ resized[1].sizes.out = <<1, 1>>

(***************************************************************************)
(* Construction: the environment main reads and the tiers Config::from_env *)
(* builds from it.                                                         *)
(***************************************************************************)
\* the largest STORAGE_CACHE_SIZE and PROCESSING_CACHE_SIZE considered
MaxCacheSize == 4

\* EnvConfig, the fields the two tiers are built from; the sizes are
\* NonZeroUsize
Envs ==
    [storage_implementation : {"InMemory", "Persistent"},
     processing_cache_implementation : {"InMemory", "Persistent"},
     storage_cache_size : 1..MaxCacheSize,
     processing_cache_size : 1..MaxCacheSize,
     max_options_per_image_overflow_policy : {"Restrict", "Rewrite"}]

\* Config::from_env: the capacity the original store is built with, the
\* capacities of the derivative cache's payload map and variant index (the
\* persistent cache ignores its _capacity), and the two capacities the
\* shared PersistentStore sizes its engine cache with
from_env(env) ==
    LET storage_size == env.storage_cache_size
        cache_size == env.processing_cache_size
        need_persist_store ==
            \/ env.storage_implementation = "Persistent"
            \/ env.processing_cache_implementation = "Persistent"
    IN  [persistent_store |->
            IF need_persist_store
            THEN Some([storage_capacity |->
                          IF env.storage_implementation = "Persistent"
                          THEN storage_size ELSE 1,
                       cache_capacity |->
                          IF env.processing_cache_implementation = "Persistent"
                          THEN cache_size ELSE 1])
            ELSE None,
         storage |-> storage_size,
         cache |-> IF env.processing_cache_implementation = "InMemory"
                   THEN Some(storage_size) ELSE None,
         cache_entries |-> IF env.processing_cache_implementation = "InMemory"
                           THEN Some(storage_size) ELSE None]

\* main: the environment is read and the Config built; the variant and the
\* overflow policy of the derivative cache are the configured ones
FromEnv(env) ==
    /\ config' = Some([env |-> env, built |-> from_env(env)])
    /\ variant' = env.processing_cache_implementation
    /\ policy' = env.max_options_per_image_overflow_policy
    /\ UNCHANGED <<evictions, lastOp, cacheVars, procVars, storeVars, shutdownVars,
                   resized, guards, ops>>

ConfigNext == \E env \in Envs : FromEnv(env)

SpecConfig == Init /\ [][ConfigNext]_vars

\* C33: the memory derivative cache (payload map and variant index) is
\* built with the capacity PROCESSING_CACHE_SIZE gives and the original
\* store with the capacity STORAGE_CACHE_SIZE gives, so that
\* STORAGE_CACHE_SIZE has no part in the derivative cache's capacity.
C33_CacheSizedByProcessingCacheSize ==
    config # None
        => /\ config[1].built.storage = config[1].env.storage_cache_size
           /\ config[1].env.processing_cache_implementation = "InMemory"
                 => /\ config[1].built.cache
                          = Some(config[1].env.processing_cache_size)
                    /\ config[1].built.cache_entries
                          = Some(config[1].env.processing_cache_size)

(***************************************************************************)
(* The locks: the RwLock around each tier and each background service, and *)
(* the derivative cache's set_lock, as get, prefetch, the background tasks *)
(* and shutdown take and drop them.  What the tiers hold is left out: a    *)
(* lookup hits or misses, a fetch succeeds or fails, as it may.  The tiers *)
(* are registered as background services behind the RwLock the Processor   *)
(* uses; a task is named after its service, main is "main".                *)
(***************************************************************************)
\* tokio's RwLock is write-preferring: read() is granted when no writer holds
\* the lock and none is queued for it.  Queued for l are the requests at
\* storage.write() or cache.write(), the task of l at service.write() and
\* main at s.write() of l.
CanRead(l) ==
    /\ guards[l].writer = None
    /\ \A r \in Requests :
          /\ l = "storage" => ops[r] \notin {"store_wait", "prefetch_wait"}
          /\ l = "cache" => ops[r] # "cache_wait"
    /\ task[l].pc # "waking"
    /\ ~(main_pc = "stopping" /\ StopOrder[Len(stopped) + 1] = l)

\* write() is granted when nobody holds the lock
CanWrite(l) == guards[l].writer = None /\ guards[l].readers = {}

\* the guards once who holds the read or the write guard of l
Locked(l, who, mode) ==
    [guards EXCEPT ![l] = IF mode = "read"
                          THEN [@ EXCEPT !.readers = @ \cup {who}]
                          ELSE [@ EXCEPT !.writer = Some(who)]]

\* a guard that stays where it is when dropped
Leaked(l, who) == guards

\* the guards once who has dropped its guard of l
Released(l, who) ==
    [guards EXCEPT ![l] = [readers |-> @.readers \ {who},
                           writer |-> IF @.writer = Some(who) THEN None
                                      ELSE @.writer]]

\* one step of request r, which leaves it holding the guards g and set_lock
\* as in m
ReqStep(r, from, to, g, m) ==
    /\ ops[r] = from
    /\ ops' = [ops EXCEPT ![r] = to]
    /\ guards' = g
    /\ set_lock' = m
    /\ UNCHANGED <<variant, policy, evictions, lastOp, cacheVars, storage, file_api,
                   api_key, fetched, cache_writer, req, storeVars, shutdownVars,
                   resized, config>>

\* Processor::get from the cache lookup to the original stored
GetGuards(r) ==
    \* cache.read().await
    \/ /\ accepting
       /\ CanRead("cache")
       /\ ReqStep(r, "idle", "cache_get", Locked("cache", r, "read"), set_lock)
    \* the lookup under the read guard, dropped at the end of the block; a hit
    \* returns
    \/ \E hit \in BOOLEAN :
          ReqStep(r, "cache_get", IF hit THEN "idle" ELSE "storage_read",
                  Released("cache", r), set_lock)
    \* storage.read().await
    \/ /\ CanRead("storage")
       /\ ReqStep(r, "storage_read", "storage_get", Locked("storage", r, "read"),
                  set_lock)
    \* the original is there, or is fetched, or NotFound without a file API
    \/ \E to \in {"process", "fetch", "idle"} :
          ReqStep(r, "storage_get", to, Released("storage", r), set_lock)
    \* api.fetch(..).await answers, with the bytes or an error
    \/ \E ok \in BOOLEAN :
          ReqStep(r, "fetch", IF ok THEN "store_wait" ELSE "idle", guards, set_lock)
    \* storage.write().await
    \/ /\ CanWrite("storage")
       /\ ReqStep(r, "store_wait", "store_set", Locked("storage", r, "write"),
                  set_lock)
    \* set under the write guard, dropped at the end of the block
    \/ ReqStep(r, "store_set", "process", Released("storage", r), set_lock)

\* a _process_image that asks for the cache's write guard before it decodes
ProcessImageUnderGuard(r) ==
    \/ /\ CanWrite("cache")
       /\ ReqStep(r, "process", "process", Locked("cache", r, "write"), set_lock)
    \/ /\ guards["cache"].writer = Some(r)
       /\ \E ok \in BOOLEAN :
             ReqStep(r, "process", IF ok THEN "set_lock" ELSE "idle",
                     IF ok THEN guards ELSE Released("cache", r), set_lock)
    \/ /\ set_lock = None
       /\ ReqStep(r, "set_lock", "set", guards, Some(r))
    \/ ReqStep(r, "set", "idle", Released("cache", r), None)

\* Processor::_process_image
ProcessImageGuards(r) ==
    \* the sniff, the decode and spawn_blocking(resize, encode).await; bytes of
    \* no supported format return UnsupportingExtension
    \/ \E ok \in BOOLEAN :
          ReqStep(r, "process", IF ok THEN "cache_wait" ELSE "idle", guards, set_lock)
    \* cache.write().await
    \/ /\ CanWrite("cache")
       /\ ReqStep(r, "cache_wait", "set_lock", Locked("cache", r, "write"), set_lock)
    \* ProcessedImagesCache::set: lock.lock().await
    \/ /\ set_lock = None
       /\ ReqStep(r, "set_lock", "set", guards, Some(r))
    \* the body of set; _guard, then cache_guard dropped
    \/ ReqStep(r, "set", "idle", Released("cache", r), None)

\* Processor::prefetch of bytes that sniff as an image
PrefetchGuards(r) ==
    \* up to _storage.write().await
    \/ /\ accepting
       /\ ReqStep(r, "idle", "prefetch_wait", guards, set_lock)
    \/ /\ CanWrite("storage")
       /\ ReqStep(r, "prefetch_wait", "prefetch_set", Locked("storage", r, "write"),
                  set_lock)
    \* set, and the guard dropped when prefetch returns
    \/ ReqStep(r, "prefetch_set", "idle", Released("storage", r), set_lock)

\* the TimeoutLayer drops the future of a request at the await it is
\* suspended in: the guards it holds are dropped with it
Cancelled(r) ==
    /\ ops[r] # "idle"
    /\ ReqStep(r, ops[r], "idle",
               [l \in DOMAIN guards |->
                   [readers |-> guards[l].readers \ {r},
                    writer |-> IF guards[l].writer = Some(r) THEN None
                               ELSE guards[l].writer]],
               IF set_lock = Some(r) THEN None ELSE set_lock)

\* the task serve_background spawned for service s, up to its select!
ServeBackgroundGuards(s) ==
    /\ main_pc # "exited"
    /\ \/ \* service.read().await
          /\ task[s].pc = "spawned"
          /\ CanRead(s)
          /\ task' = [task EXCEPT ![s].pc = "reading"]
          /\ guards' = Locked(s, s, "read")
          /\ UNCHANGED persisted
       \/ \* the period and the cancel_token read, drop(guard)
          /\ task[s].pc = "reading"
          /\ task' = [task EXCEPT ![s] = [pc |-> "select", seen |-> 0]]
          /\ guards' = Released(s, s)
          /\ UNCHANGED persisted
       \/ \* select!: sleep(interval) elapsed, service.write().await
          /\ task[s].pc = "select"
          /\ task' = [task EXCEPT ![s].pc = "waking"]
          /\ UNCHANGED <<guards, persisted>>
       \/ \* the write guard granted
          /\ task[s].pc = "waking"
          /\ CanWrite(s)
          /\ task' = [task EXCEPT ![s].pc = "background"]
          /\ guards' = Locked(s, s, "write")
          /\ UNCHANGED persisted
       \/ \* background().await, the guard dropped at the end of the arm
          /\ task[s].pc = "background"
          /\ task' = [task EXCEPT ![s].pc = "select"]
          /\ guards' = Released(s, s)
          /\ \E ok \in BOOLEAN :
                persisted' = IF s = "persistent_store" THEN Persist(ok) ELSE persisted
    /\ UNCHANGED <<main_pc, stopped, cancel, accepting, inflight, writes,
                   writes_at_stop, resized, config, ops>>
    /\ UNCHANGED <<variant, policy, evictions, lastOp, cacheVars, procVars, storeVars>>

\* shutdown_signal's loop over the services
ShutdownGuards ==
    /\ \/ \* s.write().await granted
          /\ main_pc = "stopping"
          /\ CanWrite(StopOrder[Len(stopped) + 1])
          /\ main_pc' = "stop"
          /\ guards' = Locked(StopOrder[Len(stopped) + 1], "main", "write")
          /\ UNCHANGED <<stopped, cancel, persisted, writes_at_stop>>
       \/ \* service.stop().await, the guard dropped at the end of the body
          /\ main_pc = "stop"
          /\ \E ok \in BOOLEAN : ServiceStop(StopOrder[Len(stopped) + 1], ok)
          /\ stopped' = Append(stopped, StopOrder[Len(stopped) + 1])
          /\ writes_at_stop' = IF StopOrder[Len(stopped) + 1] = "persistent_store"
                               THEN writes ELSE writes_at_stop
          /\ main_pc' = IF Len(stopped) + 1 = Len(StopOrder) THEN "joining"
                        ELSE "stopping"
          /\ guards' = Released(StopOrder[Len(stopped) + 1], "main")
    /\ UNCHANGED <<task, accepting, inflight, writes, resized, config, ops>>
    /\ UNCHANGED <<variant, policy, evictions, lastOp, cacheVars, procVars, storeVars>>

\* the server once main has built it and spawned the tasks: no lock held,
\* no request in flight
LocksInit ==
    /\ ServerInit
    /\ resized = None
    /\ config = None
    /\ guards = [l \in Registered |-> [readers |-> {}, writer |-> None]]
    /\ ops = [r \in Requests |-> "idle"]

LocksNext ==
    \/ \E r \in Requests : GetGuards(r)
    \/ \E r \in Requests : ProcessImageGuards(r)
    \/ \E r \in Requests : PrefetchGuards(r)
    \/ \E r \in Requests : Cancelled(r)
    \/ \E s \in Registered : ServeBackgroundGuards(s)
    \/ \E s \in Registered : TaskChanged(s)
    \/ ShutdownSignal
    \/ ShutdownGuards
    \/ JoinAll
    \/ Drained /\ \A r \in Requests : ops[r] = "idle"

SpecLocks == LocksInit /\ [][LocksNext]_vars

\* C37: while a request waits for the upstream fetch or for the decode,
\* resize and encode, it holds neither the RwLock of the original store nor
\* that of the derivative cache nor set_lock, and is queued for none; so
\* with nobody else at the cache's lock, the cache lookup of another
\* request goes ahead however long the fetch or the processing takes.
C37_NoLockAcrossFetchOrProcessing ==
    \A r \in Requests :
        ops[r] \in {"fetch", "process"}
            => /\ \A l \in DOMAIN guards :
                     r \notin guards[l].readers /\ guards[l].writer # Some(r)
               /\ set_lock # Some(r)
               /\ \A o \in Requests \ {r} :
                     ( /\ ops[o] = "idle"
                       /\ accepting
                       /\ guards["cache"].readers \subseteq {r}
                       /\ guards["cache"].writer \in {None, Some(r)}
                       /\ task["cache"].pc # "waking"
                       /\ ~(main_pc = "stopping"
                              /\ StopOrder[Len(stopped) + 1] = "cache") )
                         => ENABLED GetGuards(o)

\* r1 is decoding and encoding while r2 reads the cache under its read guard
C37_WitnessLookupDuringProcessing ==
    /\ ops["r1"] = "process"
    /\ ops["r2"] = "cache_get"
    /\ "r2" \in guards["cache"].readers

\* C38: in every interleaving of get, prefetch, the background tasks and
\* shutdown, nobody holds the guards of two RwLocks at once, set_lock is
\* held only by the holder of the cache's write guard, and whoever holds a
\* guard or set_lock can take its next step (it waits for no lock that is
\* taken), so that every lock is released and some step is enabled until
\* main has exited with no request left.
C38_NoDeadlock ==
    /\ \A who \in Requests \cup Registered \cup {"main"} :
          \A l1, l2 \in DOMAIN guards :
              ( /\ who \in guards[l1].readers \/ guards[l1].writer = Some(who)
                /\ who \in guards[l2].readers \/ guards[l2].writer = Some(who) )
                  => l1 = l2
    /\ set_lock # None => guards["cache"].writer = set_lock
    /\ \A r \in Requests :
          ( \/ set_lock = Some(r)
            \/ \E l \in DOMAIN guards :
                  r \in guards[l].readers \/ guards[l].writer = Some(r) )
              => ENABLED (GetGuards(r) \/ ProcessImageGuards(r) \/ PrefetchGuards(r))
    /\ \A s \in Registered :
          (s \in guards[s].readers \/ guards[s].writer = Some(s))
              => ENABLED ServeBackgroundGuards(s)
    /\ (\E l \in DOMAIN guards : guards[l].writer = Some("main"))
          => ENABLED ShutdownGuards
    /\ \/ ENABLED LocksNext
       \/ main_pc = "exited" /\ \A r \in Requests : ops[r] = "idle"

\* the cache's lock contended from every side: r1 inside set under the write
\* guard and set_lock, r2, the cache's task and main queued for the write
\* guard
C38_WitnessContendedCacheLock ==
    /\ ops["r1"] = "set"
    /\ set_lock = Some("r1")
    /\ guards["cache"].writer = Some("r1")
    /\ ops["r2"] = "cache_wait"
    /\ task["cache"].pc = "waking"
    /\ main_pc = "stopping"
    /\ StopOrder[Len(stopped) + 1] = "cache"

====
